---- MODULE Spec2Model ----
(***************************************************************************)
(* Model of the sculpt "expand" operator (sculpt_expand.c) and of the      *)
(* grease pencil fill operator (gpencil_fill.c).                           *)
(*                                                                         *)
(* Falloff values, masks and colours are C floats in the source.  They are *)
(* modelled as exact fractions <<n, d>> (d > 0), with <<1, 0>> for +inf,   *)
(* <<-1, 0>> for -inf and <<0, 0>> for NaN.  FLT_MAX is a large integer.   *)
(* The meshes of the falloff builders are chosen so that every edge length *)
(* and every distance the model computes is an integer.                    *)
(***************************************************************************)
EXTENDS Integers, Sequences, FiniteSets, TLC

(* ------------------------------------------------------------------ *)
(* Bounds of the model                                                *)
(* ------------------------------------------------------------------ *)

\* Number of vertices of the generic graphs the falloff builders are run on.
GraphVerts == 3
\* Largest edge-sensitivity exponent tried besides the operator's own 300.
MaxSensitivity == 2

(* ------------------------------------------------------------------ *)
(* Program constants                                                  *)
(* ------------------------------------------------------------------ *)

SCULPT_EXPAND_VERTEX_NONE == -1
\* <float.h> FLT_MAX, the "unreached" sentinel of the falloff arrays.
FLT_MAX == 10000
\* Edge sensitivity the operator passes to the normal falloff.
NORMALS_EDGE_SENSITIVITY == 300
\* Number of smoothing rounds of the normal falloff.
NORMALS_SMOOTH_REPEAT == 2

(* ------------------------------------------------------------------ *)
(* Float arithmetic on fractions                                      *)
(* ------------------------------------------------------------------ *)

Abs(x) == IF x < 0 THEN -x ELSE x

Sgn(x) == IF x < 0 THEN -1 ELSE IF x > 0 THEN 1 ELSE 0

RECURSIVE Gcd(_, _)
Gcd(a, b) == IF b = 0 THEN a ELSE Gcd(b, a % b)

\* The fraction n/d in lowest terms; d = 0 gives +inf, -inf or NaN.
Frac(n, d) ==
    IF d = 0 THEN <<Sgn(n), 0>>
    ELSE LET g == Gcd(Abs(n), Abs(d))
             s == IF d < 0 THEN -1 ELSE 1
         IN  <<(s * n) \div g, (s * d) \div g>>

F(n) == <<n, 1>>

F_INF == <<1, 0>>
F_NEG_INF == <<-1, 0>>
F_NAN == <<0, 0>>
F_FLT_MAX == F(FLT_MAX)

IsNaN(a) == a = F_NAN
IsFinite(a) == a[2] # 0

\* a < b on floats: false when either side is NaN.
FLess(a, b) ==
    /\ ~IsNaN(a)
    /\ ~IsNaN(b)
    /\ IF IsFinite(a) /\ IsFinite(b) THEN a[1] * b[2] < b[1] * a[2]
       ELSE IF IsFinite(a) THEN b = F_INF
       ELSE IF IsFinite(b) THEN a = F_NEG_INF
       ELSE a = F_NEG_INF /\ b = F_INF

\* a == b on floats: NaN equals nothing.
FEq(a, b) == ~IsNaN(a) /\ ~IsNaN(b) /\ a = b

FLessEq(a, b) == FLess(a, b) \/ FEq(a, b)

\* Rounding of an exact result to a float: a magnitude above FLT_MAX rounds
\* back to FLT_MAX when the excess is below half an ulp and to infinity
\* otherwise.  Ordinary values are far below half an ulp of FLT_MAX, values of
\* the order of FLT_MAX are above it.
FRound(a) ==
    IF ~IsFinite(a) THEN a
    ELSE IF FLess(F_FLT_MAX, a)
         THEN (IF FLess(a, Frac(3 * FLT_MAX, 2)) THEN F_FLT_MAX ELSE F_INF)
    ELSE IF FLess(a, F(-FLT_MAX))
         THEN (IF FLess(Frac(-3 * FLT_MAX, 2), a) THEN F(-FLT_MAX) ELSE F_NEG_INF)
    ELSE a

FAdd(a, b) ==
    IF IsNaN(a) \/ IsNaN(b) THEN F_NAN
    ELSE IF ~IsFinite(a) /\ ~IsFinite(b) THEN (IF a = b THEN a ELSE F_NAN)
    ELSE IF ~IsFinite(a) THEN a
    ELSE IF ~IsFinite(b) THEN b
    ELSE FRound(Frac(a[1] * b[2] + b[1] * a[2], a[2] * b[2]))

FNeg(a) == <<-a[1], a[2]>>

FSub(a, b) == FAdd(a, FNeg(b))

FMul(a, b) ==
    IF IsNaN(a) \/ IsNaN(b) THEN F_NAN
    ELSE IF ~IsFinite(a) \/ ~IsFinite(b)
         THEN (IF a[1] = 0 \/ b[1] = 0 THEN F_NAN
               ELSE IF Sgn(a[1]) = Sgn(b[1]) THEN F_INF ELSE F_NEG_INF)
    ELSE FRound(Frac(a[1] * b[1], a[2] * b[2]))

FDiv(a, b) ==
    IF IsNaN(a) \/ IsNaN(b) THEN F_NAN
    ELSE IF ~IsFinite(a) /\ ~IsFinite(b) THEN F_NAN
    ELSE IF ~IsFinite(a) THEN (IF b[1] < 0 THEN FNeg(a) ELSE a)
    ELSE IF ~IsFinite(b) THEN F(0)
    ELSE IF b[1] = 0 THEN Frac(a[1], 0)
    ELSE FRound(Frac(a[1] * b[2], a[2] * b[1]))

\* BLI_math: max_ff(a, b) is (a > b) ? a : b, min_ff(a, b) is (a < b) ? a : b.
max_ff(a, b) == IF FLess(b, a) THEN a ELSE b

min_ff(a, b) == IF FLess(a, b) THEN a ELSE b

\* BLI_math: clamp_f returns max when value > max, min when value < min, and
\* the value itself otherwise (so a NaN passes through).
clamp_f(value, min, max) ==
    IF FLess(max, value) THEN max
    ELSE IF FLess(value, min) THEN min
    ELSE value

\* The CLAMP macro: "if (a < b) a = b; else if (a > c) a = c".
CLAMP(a, b, c) ==
    IF FLess(a, b) THEN b
    ELSE IF FLess(c, a) THEN c
    ELSE a

\* powf(x, e) for the bases the model's unit normals produce (-1, 0, 1) and a
\* whole exponent e >= 0.
powf(x, e) ==
    IF e = 0 THEN F(1)
    ELSE IF x = F(1) THEN F(1)
    ELSE IF x = F(0) THEN F(0)
    ELSE IF e % 2 = 0 THEN F(1) ELSE F(-1)

(* ------------------------------------------------------------------ *)
(* Small helpers on sets and sequences                                *)
(* ------------------------------------------------------------------ *)

SetMin(S) == CHOOSE x \in S : \A y \in S : x <= y

SetMax(S) == CHOOSE x \in S : \A y \in S : x >= y

RECURSIVE SortedSeq(_)
SortedSeq(S) ==
    IF S = {} THEN <<>>
    ELSE LET m == SetMin(S) IN <<m>> \o SortedSeq(S \ {m})

SeqRange(s) == {s[i] : i \in 1..Len(s)}

\* Square root rounded down to the unit of the model's floats.
ISqrt(n) == CHOOSE r \in 0..n : r * r <= n /\ (r + 1) * (r + 1) > n

(* ------------------------------------------------------------------ *)
(* Meshes                                                             *)
(*                                                                    *)
(* A mesh is what the sculpt session exposes: the vertex count, the   *)
(* neighbour iterator of every vertex (with the is_duplicate flag of  *)
(* the multires grids), positions, normals and the polygons.          *)
(* ------------------------------------------------------------------ *)

Verts(mesh) == 0..(mesh.totvert - 1)

Faces(mesh) == 0..(mesh.totface - 1)

\* SCULPT_VERTEX_DUPLICATES_AND_NEIGHBORS_ITER: the neighbours, then the
\* duplicates, of a vertex.
NeighborSeq(nbset, dupset) ==
    [i \in 1..Cardinality(nbset) |-> [index |-> SortedSeq(nbset)[i], is_duplicate |-> FALSE]]
    \o [i \in 1..Cardinality(dupset) |-> [index |-> SortedSeq(dupset)[i], is_duplicate |-> TRUE]]

\* SCULPT_VERTEX_NEIGHBORS_ITER: the neighbours of a vertex without duplicates.
Neighbors(mesh, v) == SelectSeq(mesh.nb[v], LAMBDA e : ~e.is_duplicate)

\* Edges of a polygon: consecutive loop vertices, closing the loop.
PolyEdges(poly) ==
    {{poly[i], poly[(i % Len(poly)) + 1]} : i \in 1..Len(poly)}

MeshEdges(mpoly) == UNION {PolyEdges(mpoly[p]) : p \in DOMAIN mpoly}

MeshOfPolys(n, mpoly, co, no, dups) ==
    [totvert |-> n,
     totface |-> Cardinality(DOMAIN mpoly),
     mpoly   |-> mpoly,
     co      |-> co,
     no      |-> no,
     nb      |-> [v \in 0..(n - 1) |->
                    NeighborSeq({u \in 0..(n - 1) : u # v /\ {u, v} \in MeshEdges(mpoly)},
                                {u \in 0..(n - 1) : u # v /\ {u, v} \in dups})]]

\* A graph on GraphVerts vertices given by its edges; the vertices lie on the
\* X axis, mirrored about the origin, with the normal along Z.
GraphMesh(E) ==
    [totvert |-> GraphVerts,
     totface |-> 0,
     mpoly   |-> <<>>,
     co      |-> [v \in 0..(GraphVerts - 1) |-> <<2 * v - (GraphVerts - 1), 0, 0>>],
     no      |-> [v \in 0..(GraphVerts - 1) |-> <<0, 0, 1>>],
     nb      |-> [v \in 0..(GraphVerts - 1) |->
                    NeighborSeq({u \in 0..(GraphVerts - 1) : u # v /\ {u, v} \in E}, {})]]

GraphEdges == {{u, v} : u, v \in 0..(GraphVerts - 1)} \ {{v} : v \in 0..(GraphVerts - 1)}

GraphMeshes == {GraphMesh(E) : E \in SUBSET GraphEdges}

\* Four triangles around a centre vertex: 0 = (0,0), 1 = (4,0), 2 = (0,3),
\* 3 = (-4,0), 4 = (0,-3).  Every edge and every distance is 3, 4, 5, 6 or 8.
\* The normals tilt from face to face.
Rhombus ==
    MeshOfPolys(5,
                [p \in 0..3 |-> <<<<0, 1, 2>>, <<0, 2, 3>>, <<0, 3, 4>>, <<0, 4, 1>>>>[p + 1]],
                [v \in 0..4 |-> <<<<0, 0, 0>>, <<4, 0, 0>>, <<0, 3, 0>>, <<-4, 0, 0>>, <<0, -3, 0>>>>[v + 1]],
                [v \in 0..4 |-> <<<<0, 0, 1>>, <<1, 0, 0>>, <<0, 1, 0>>, <<-1, 0, 0>>, <<0, -1, 0>>>>[v + 1]],
                {})

\* Two triangles that share no vertex, on the X axis: vertices 0..2 at
\* x = -5, -4, -3 and vertices 3..5 at x = 3, 4, 5.
Split ==
    MeshOfPolys(6,
                [p \in 0..1 |-> <<<<0, 1, 2>>, <<3, 4, 5>>>>[p + 1]],
                [v \in 0..5 |-> <<<<-5, 0, 0>>, <<-4, 0, 0>>, <<-3, 0, 0>>, <<3, 0, 0>>, <<4, 0, 0>>, <<5, 0, 0>>>>[v + 1]],
                [v \in 0..5 |-> <<0, 0, 1>>],
                {})

\* A closed mesh with more faces than vertices: six triangles around the
\* vertices 2, 3, 4, closed by the vertex 0 above and the vertex 1 below.
Bipyramid ==
    MeshOfPolys(5,
                [p \in 0..5 |-> <<<<0, 2, 3>>, <<0, 3, 4>>, <<0, 4, 2>>,
                                  <<1, 3, 2>>, <<1, 4, 3>>, <<1, 2, 4>>>>[p + 1]],
                [v \in 0..4 |-> <<<<0, 0, 3>>, <<0, 0, -3>>, <<4, 0, 0>>, <<-4, 0, 0>>, <<0, 4, 0>>>>[v + 1]],
                [v \in 0..4 |-> <<<<0, 0, 1>>, <<0, 0, -1>>, <<1, 0, 0>>, <<-1, 0, 0>>, <<0, 1, 0>>>>[v + 1]],
                {})

\* Two multires grids of 2 x 2 vertices that meet in a seam: grid A holds the
\* vertices 0..3 and grid B the vertices 4..7; the vertices 1 and 4, and 3 and
\* 6, lie at the same position (duplicates).
SeamGrids ==
    MeshOfPolys(8,
                [p \in 0..1 |-> <<<<0, 1, 3, 2>>, <<4, 5, 7, 6>>>>[p + 1]],
                [v \in 0..7 |-> <<<<0, 0, 0>>, <<1, 0, 0>>, <<0, 1, 0>>, <<1, 1, 0>>,
                                  <<1, 0, 0>>, <<2, 0, 0>>, <<1, 1, 0>>, <<2, 1, 0>>>>[v + 1]],
                [v \in 0..7 |-> <<0, 0, 1>>],
                {{1, 4}, {3, 6}})

\* The 5 x 5 grid of the topological scenario, 4-connected; vertex x + 5 * y.
Grid5 ==
    [totvert |-> 25,
     totface |-> 0,
     mpoly   |-> <<>>,
     co      |-> [v \in 0..24 |-> <<v % 5, v \div 5, 0>>],
     no      |-> [v \in 0..24 |-> <<0, 0, 1>>],
     nb      |-> [v \in 0..24 |->
                    NeighborSeq({u \in 0..24 :
                                   Abs((u % 5) - (v % 5)) + Abs((u \div 5) - (v \div 5)) = 1}, {})]]

\* A tube open at both ends, along the X axis: five rings of three vertices at
\* x = -2 .. 2, joined by twelve quads; vertex 3 * r + k is vertex k of ring r.
\* The rings at x = -2 and x = 2 are its two boundary curves.
Tube ==
    MeshOfPolys(15,
                [p \in 0..11 |->
                    LET r == p \div 3
                        k == p % 3
                    IN  <<(3 * r) + k, (3 * r) + ((k + 1) % 3),
                          (3 * (r + 1)) + ((k + 1) % 3), (3 * (r + 1)) + k>>],
                [v \in 0..14 |-> <<(v \div 3) - 2, <<0, 1, -1>>[(v % 3) + 1],
                                   <<1, -1, -1>>[(v % 3) + 1]>>],
                [v \in 0..14 |-> <<0, <<0, 1, -1>>[(v % 3) + 1], <<1, 0, 0>>[(v % 3) + 1]>>],
                {})

(* ------------------------------------------------------------------ *)
(* Vector helpers (BLI_math)                                          *)
(* ------------------------------------------------------------------ *)

dot_v3v3(a, b) == a[1] * b[1] + a[2] * b[2] + a[3] * b[3]

\* len_v3v3: the distance of two points, rounded as ISqrt rounds.
len_v3v3(a, b) ==
    ISqrt((a[1] - b[1]) * (a[1] - b[1]) + (a[2] - b[2]) * (a[2] - b[2])
          + (a[3] - b[3]) * (a[3] - b[3]))

\* Bit k (1, 2 or 4) of a symmetry flag 0..7.
SymmBit(symm, k) == (symm \div k) % 2 = 1

\* symm & i # 0
SymmAnd(symm, i) == \E k \in {1, 2, 4} : SymmBit(symm, k) /\ SymmBit(i, k)

\* flip_v3_v3: mirror a position over the axes of the symmetry iteration.
flip_v3_v3(co, symm_it) ==
    <<IF SymmBit(symm_it, 1) THEN -co[1] ELSE co[1],
      IF SymmBit(symm_it, 2) THEN -co[2] ELSE co[2],
      IF SymmBit(symm_it, 4) THEN -co[3] ELSE co[3]>>

SCULPT_is_symmetry_iteration_valid(i, symm) ==
    \/ i = 0
    \/ /\ SymmAnd(symm, i)
       /\ (symm # 5 \/ i # 3)
       /\ (symm # 6 \/ (i # 3 /\ i # 5))

\* SCULPT_nearest_vertex_get: the vertex nearest to a location, or none for
\* the symmetry iterations in fail (the search found no vertex).
SCULPT_nearest_vertex_get(mesh, location, symm_it, fail) ==
    IF symm_it \in fail THEN SCULPT_EXPAND_VERTEX_NONE
    ELSE LET d2(v) == dot_v3v3(<<mesh.co[v][1] - location[1], mesh.co[v][2] - location[2],
                                 mesh.co[v][3] - location[3]>>,
                               <<mesh.co[v][1] - location[1], mesh.co[v][2] - location[2],
                                 mesh.co[v][3] - location[3]>>)
         IN  SetMin({v \in Verts(mesh) : \A u \in Verts(mesh) : d2(v) <= d2(u)})

\* The origin of a symmetry iteration, as the falloff builders resolve it.
SymmOrigin(mesh, vertex, symm_it, fail) ==
    IF symm_it = 0 THEN vertex
    ELSE SCULPT_nearest_vertex_get(mesh, flip_v3_v3(mesh.co[vertex], symm_it), symm_it, fail)

(* ------------------------------------------------------------------ *)
(* Flood fill over the vertices (the SCULPT_floodfill functions)       *)
(* ------------------------------------------------------------------ *)

\* mask_expand_topology_floodfill_cb with a missing "+ 1.0f".
MutTopologyCbNoStep(data, mesh, from_v, to_v, is_duplicate) ==
    [data EXCEPT !.dists[to_v] = data.dists[from_v]]

mask_expand_topology_floodfill_cb(data, mesh, from_v, to_v, is_duplicate) ==
    IF ~is_duplicate
    THEN [data EXCEPT !.dists[to_v] = FAdd(data.dists[from_v], F(1))]
    ELSE [data EXCEPT !.dists[to_v] = data.dists[from_v]]

mask_expand_normal_floodfill_cb(data, mesh, from_v, to_v, is_duplicate) ==
    IF ~is_duplicate
    THEN LET current_normal == mesh.no[to_v]
             prev_normal == mesh.no[from_v]
             from_edge_factor == data.edge_factor[from_v]
         IN  [data EXCEPT
                !.edge_factor[to_v] = FMul(F(dot_v3v3(current_normal, prev_normal)),
                                           from_edge_factor),
                !.dists[to_v] = CLAMP(FMul(F(dot_v3v3(data.original_normal, current_normal)),
                                           powf(from_edge_factor, data.edge_sensitivity)),
                                      F(0), F(1))]
    ELSE [data EXCEPT !.edge_factor[to_v] = data.edge_factor[from_v],
                      !.dists[to_v] = data.dists[from_v]]

FloodfillCb(kind, data, mesh, from_v, to_v, is_duplicate) ==
    IF kind = "topology"
    THEN mask_expand_topology_floodfill_cb(data, mesh, from_v, to_v, is_duplicate)
    ELSE mask_expand_normal_floodfill_cb(data, mesh, from_v, to_v, is_duplicate)

\* One popped vertex: every neighbour and duplicate not visited yet is marked,
\* handed to the callback and queued.
RECURSIVE FloodfillVisit(_, _, _, _, _)
FloodfillVisit(kind, mesh, from_v, k, st) ==
    IF k > Len(mesh.nb[from_v]) THEN st
    ELSE LET ni == mesh.nb[from_v][k]
         IN  IF ni.index \in st.visited
             THEN FloodfillVisit(kind, mesh, from_v, k + 1, st)
             ELSE FloodfillVisit(kind, mesh, from_v, k + 1,
                      [queue   |-> Append(st.queue, ni.index),
                       visited |-> st.visited \cup {ni.index},
                       data    |-> FloodfillCb(kind, st.data, mesh, from_v,
                                               ni.index, ni.is_duplicate)])

RECURSIVE FloodfillLoop(_, _, _)
FloodfillLoop(kind, mesh, st) ==
    IF st.queue = <<>> THEN st.data
    ELSE FloodfillLoop(kind, mesh,
             FloodfillVisit(kind, mesh, Head(st.queue), 1,
                            [st EXCEPT !.queue = Tail(st.queue)]))

\* SCULPT_floodfill_execute: breadth first from the initial vertices.
SCULPT_floodfill_execute(kind, mesh, initial, data) ==
    FloodfillLoop(kind, mesh,
                  [queue |-> initial, visited |-> SeqRange(initial), data |-> data])

\* The symmetry iterations 0..symm in order.
SymmIterations(symm) == [i \in 1..(symm + 1) |-> i - 1]

\* SCULPT_floodfill_add_initial_with_symmetry: the vertex and, for each valid
\* symmetry iteration, the vertex nearest to its mirrored position.
SCULPT_floodfill_add_initial_with_symmetry(mesh, vertex, symm, fail) ==
    LET valid == SelectSeq(SymmIterations(symm),
                           LAMBDA i : /\ SCULPT_is_symmetry_iteration_valid(i, symm)
                                      /\ SymmOrigin(mesh, vertex, i, fail)
                                           # SCULPT_EXPAND_VERTEX_NONE)
    IN  [k \in 1..Len(valid) |-> SymmOrigin(mesh, vertex, valid[k], fail)]

(* ------------------------------------------------------------------ *)
(* Falloff builders (sculpt_expand.c)                                 *)
(* ------------------------------------------------------------------ *)

\* A topology build whose array starts at FLT_MAX away from the origins, so
\* that a vertex the fill never visits holds the unreached value.
MutTopologySentinel(mesh, vertex, symm, fail) ==
    LET initial == SCULPT_floodfill_add_initial_with_symmetry(mesh, vertex, symm, fail)
        dists == [i \in Verts(mesh) |-> IF i \in SeqRange(initial) THEN F(0) ELSE F_FLT_MAX]
    IN  SCULPT_floodfill_execute("topology", mesh, initial, [dists |-> dists]).dists

sculpt_expand_topology_falloff_create(mesh, vertex, symm, fail) ==
    LET dists == [i \in Verts(mesh) |-> F(0)]
        fdata == [dists |-> dists]
    IN  SCULPT_floodfill_execute("topology", mesh,
            SCULPT_floodfill_add_initial_with_symmetry(mesh, vertex, symm, fail),
            fdata).dists

\* The smoothing loop body for vertex i: the mean of the neighbours' values.
RECURSIVE NormalAvgSum(_, _, _, _)
NormalAvgSum(ni, k, dists, avg) ==
    IF k > Len(ni) THEN avg
    ELSE NormalAvgSum(ni, k + 1, dists, FAdd(avg, dists[ni[k].index]))

RECURSIVE NormalSmoothPass(_, _, _)
NormalSmoothPass(mesh, i, dists) ==
    IF i >= mesh.totvert THEN dists
    ELSE LET ni == Neighbors(mesh, i)
             avg == NormalAvgSum(ni, 1, dists, F(0))
         IN  NormalSmoothPass(mesh, i + 1,
                              [dists EXCEPT ![i] = FDiv(avg, F(Len(ni)))])

RECURSIVE NormalSmooth(_, _, _)
NormalSmooth(mesh, repeat, dists) ==
    IF repeat >= NORMALS_SMOOTH_REPEAT THEN dists
    ELSE NormalSmooth(mesh, repeat + 1, NormalSmoothPass(mesh, 0, dists))

\* garbage stands for the content of the freshly malloc'ed dists array.
sculpt_expand_normal_falloff_create(mesh, vertex, edge_sensitivity, symm, fail, garbage) ==
    LET dists == [i \in Verts(mesh) |-> garbage]
        edge_factor == [i \in Verts(mesh) |-> F(1)]
        fdata == [dists |-> dists, edge_factor |-> edge_factor,
                  edge_sensitivity |-> edge_sensitivity,
                  original_normal |-> mesh.no[vertex]]
        flooded == SCULPT_floodfill_execute("normal", mesh,
                       SCULPT_floodfill_add_initial_with_symmetry(mesh, vertex, symm, fail),
                       fdata)
        reset == [i \in DOMAIN flooded.dists |-> F_FLT_MAX]
    IN  NormalSmooth(mesh, 0, reset)

\* A spherical falloff that keeps the last origin's distance instead of the minimum.
MutSphericalStepNoMin(mesh, vertex, symm, fail, symm_it, dists) ==
    LET v == SymmOrigin(mesh, vertex, symm_it, fail)
    IN  IF ~SCULPT_is_symmetry_iteration_valid(symm_it, symm) THEN dists
        ELSE IF v = -1 THEN dists
        ELSE [i \in Verts(mesh) |-> F(len_v3v3(mesh.co[v], mesh.co[i]))]

\* One symmetry iteration of the spherical falloff.
SphericalStep(mesh, vertex, symm, fail, symm_it, dists) ==
    LET v == SymmOrigin(mesh, vertex, symm_it, fail)
    IN  IF ~SCULPT_is_symmetry_iteration_valid(symm_it, symm) THEN dists
        ELSE IF v = -1 THEN dists
        ELSE [i \in Verts(mesh) |->
                min_ff(dists[i], F(len_v3v3(mesh.co[v], mesh.co[i])))]

RECURSIVE SphericalLoop(_, _, _, _, _, _)
SphericalLoop(mesh, vertex, symm, fail, symm_it, dists) ==
    IF symm_it > symm THEN dists
    ELSE SphericalLoop(mesh, vertex, symm, fail, symm_it + 1,
                       SphericalStep(mesh, vertex, symm, fail, symm_it, dists))

sculpt_expand_spherical_falloff_create(mesh, vertex, symm, fail) ==
    SphericalLoop(mesh, vertex, symm, fail, 0, [i \in Verts(mesh) |-> F_FLT_MAX])

\* sculpt_expand_update_max_falloff_factor without the test that skips the
\* entries equal to FLT_MAX.
MutMaxCountsSentinel(mesh, falloff_factor) ==
    LET RECURSIVE Loop(_, _)
        Loop(i, max) ==
            IF i >= mesh.totvert THEN max
            ELSE Loop(i + 1, max_ff(max, falloff_factor[i]))
    IN  Loop(0, F(-FLT_MAX))

sculpt_expand_update_max_falloff_factor(mesh, falloff_factor) ==
    LET RECURSIVE Loop(_, _)
        Loop(i, max) ==
            IF i >= mesh.totvert THEN max
            ELSE IF FEq(falloff_factor[i], F_FLT_MAX) THEN Loop(i + 1, max)
            ELSE Loop(i + 1, max_ff(max, falloff_factor[i]))
    IN  Loop(0, F(-FLT_MAX))

(* ------------------------------------------------------------------ *)
(* Mesh boundary and geodesic services (sculpt_boundary.c,            *)
(* sculpt_geodesic.c)                                                 *)
(* ------------------------------------------------------------------ *)

\* Edges that belong to exactly one polygon.
BoundaryEdges(mesh) ==
    {e \in MeshEdges(mesh.mpoly) :
        Cardinality({p \in DOMAIN mesh.mpoly : e \in PolyEdges(mesh.mpoly[p])}) = 1}

BoundaryVerts(mesh) == UNION BoundaryEdges(mesh)

SCULPT_vertex_is_boundary(mesh, v) == v \in BoundaryVerts(mesh)

\* Vertices within the given number of edges of the set S.
Reach(mesh, S, hops) ==
    LET RECURSIVE Grow(_, _)
        Grow(T, h) ==
            IF h = 0 THEN T
            ELSE Grow(T \cup UNION {{mesh.nb[v][k].index : k \in DOMAIN mesh.nb[v]} : v \in T},
                      h - 1)
    IN  Grow(S, hops)

\* Vertices joined to v by boundary edges.
BoundaryCurve(mesh, v) ==
    LET edges == BoundaryEdges(mesh)
        RECURSIVE Grow(_, _)
        Grow(T, h) ==
            IF h = 0 THEN T
            ELSE Grow(T \cup {u \in Verts(mesh) : \E t \in T : {u, t} \in edges}, h - 1)
    IN  Grow({v}, mesh.totvert)

\* What the boundary service hands back when it finds no boundary: no
\* boundary object at all, or a boundary object without vertices.
BoundaryNone == {"NULL", "EMPTY"}

\* SCULPT_boundary_data_init with an unlimited radius: the boundary curve
\* through the boundary vertex closest to the initial vertex; when the
\* initial vertex is none or reaches no boundary vertex, NULL or a boundary
\* without vertices, as none says.
SCULPT_boundary_data_init(mesh, initial_vertex, none) ==
    IF initial_vertex = SCULPT_EXPAND_VERTEX_NONE
    THEN [null |-> none = "NULL", vertices |-> <<>>]
    ELSE LET hopsTo == {h \in 0..mesh.totvert :
                           Reach(mesh, {initial_vertex}, h) \cap BoundaryVerts(mesh) # {}}
         IN  IF hopsTo = {} THEN [null |-> none = "NULL", vertices |-> <<>>]
             ELSE LET first == SetMin(Reach(mesh, {initial_vertex}, SetMin(hopsTo))
                                       \cap BoundaryVerts(mesh))
                  IN  [null |-> FALSE, vertices |-> SortedSeq(BoundaryCurve(mesh, first))]

\* Geodesic distances from a set of vertices: the length of the shortest path
\* along mesh edges, FLT_MAX for the vertices no path reaches.
EdgeLen(mesh, u, e) ==
    IF e.is_duplicate THEN F(0) ELSE F(len_v3v3(mesh.co[u], mesh.co[e.index]))

\* The edges out of the settled vertex u shorten the values of its neighbours.
RECURSIVE GeodesicRelaxFrom(_, _, _, _)
GeodesicRelaxFrom(mesh, u, k, dists) ==
    IF k > Len(mesh.nb[u]) THEN dists
    ELSE LET e == mesh.nb[u][k]
             through == FAdd(dists[u], EdgeLen(mesh, u, e))
         IN  GeodesicRelaxFrom(mesh, u, k + 1,
                 IF ~FEq(dists[u], F_FLT_MAX) /\ FLess(through, dists[e.index])
                 THEN [dists EXCEPT ![e.index] = through]
                 ELSE dists)

\* Settle the vertices in the order of their distance.
RECURSIVE GeodesicSettle(_, _, _)
GeodesicSettle(mesh, dists, settled) ==
    IF settled = Verts(mesh) THEN dists
    ELSE LET open == Verts(mesh) \ settled
             u == CHOOSE c \in open : \A w \in open : FLessEq(dists[c], dists[w])
         IN  GeodesicSettle(mesh, GeodesicRelaxFrom(mesh, u, 1, dists), settled \cup {u})

SCULPT_geodesic_distances_create(mesh, initial_vertices) ==
    GeodesicSettle(mesh,
                   [v \in Verts(mesh) |-> IF v \in initial_vertices THEN F(0) ELSE F_FLT_MAX],
                   {})

SCULPT_geodesic_from_vertex_and_symm(mesh, vertex, symm, fail) ==
    SCULPT_geodesic_distances_create(mesh,
        SeqRange(SCULPT_floodfill_add_initial_with_symmetry(mesh, vertex, symm, fail)))

sculpt_expand_geodesic_falloff_create(mesh, vertex, symm, fail) ==
    SCULPT_geodesic_from_vertex_and_symm(mesh, vertex, symm, fail)

\* The seeding loop of the boundary falloff: one boundary query per valid
\* symmetry iteration; the vertices of each boundary are queued and marked.
RECURSIVE BoundarySeed(_, _, _, _, _, _, _)
BoundarySeed(mesh, vertex, symm, fail, none, symm_it, st) ==
    IF symm_it > symm \/ st.null_deref THEN st
    ELSE IF ~SCULPT_is_symmetry_iteration_valid(symm_it, symm)
    THEN BoundarySeed(mesh, vertex, symm, fail, none, symm_it + 1, st)
    ELSE LET v == SymmOrigin(mesh, vertex, symm_it, fail)
             boundary == SCULPT_boundary_data_init(mesh, v, none)
         IN  IF boundary.null
             THEN [st EXCEPT !.null_deref = TRUE, !.queried = Append(st.queried, v)]
             ELSE BoundarySeed(mesh, vertex, symm, fail, none, symm_it + 1,
                      [st EXCEPT !.queue = st.queue \o boundary.vertices,
                                 !.visited = st.visited \cup SeqRange(boundary.vertices),
                                 !.queried = Append(st.queried, v)])

\* The breadth first loop of the boundary falloff.
RECURSIVE BoundaryVisit(_, _, _, _)
BoundaryVisit(mesh, v, k, st) ==
    LET ni == Neighbors(mesh, v)
    IN  IF k > Len(ni) THEN st
        ELSE IF ni[k].index \in st.visited THEN BoundaryVisit(mesh, v, k + 1, st)
        ELSE BoundaryVisit(mesh, v, k + 1,
                 [st EXCEPT !.dists[ni[k].index] = FAdd(st.dists[v], F(1)),
                            !.visited = st.visited \cup {ni[k].index},
                            !.queue = Append(st.queue, ni[k].index)])

RECURSIVE BoundaryLoop(_, _)
BoundaryLoop(mesh, st) ==
    IF st.queue = <<>> THEN st
    ELSE BoundaryLoop(mesh, BoundaryVisit(mesh, Head(st.queue), 1,
                                          [st EXCEPT !.queue = Tail(st.queue)]))

\* The boundary falloff without its return on the empty queue: the closing loop
\* gives FLT_MAX to every vertex the traversal did not visit.
MutBoundaryNoEarlyReturn(mesh, vertex, symm, fail, none) ==
    LET st0 == [dists |-> [i \in Verts(mesh) |-> F(0)], visited |-> {}, queue |-> <<>>,
                null_deref |-> FALSE, queried |-> <<>>]
        seeded == BoundarySeed(mesh, vertex, symm, fail, none, 0, st0)
    IN  IF seeded.null_deref THEN seeded
        ELSE LET done == BoundaryLoop(mesh, seeded)
             IN  [done EXCEPT !.dists = [i \in Verts(mesh) |->
                                            IF i \in done.visited THEN done.dists[i]
                                            ELSE F_FLT_MAX]]

\* The boundary falloff without its closing loop: the vertices the traversal
\* did not visit keep the 0 of the allocation.
MutBoundaryNoSentinel(mesh, vertex, symm, fail, none) ==
    LET st0 == [dists |-> [i \in Verts(mesh) |-> F(0)], visited |-> {}, queue |-> <<>>,
                null_deref |-> FALSE, queried |-> <<>>]
        seeded == BoundarySeed(mesh, vertex, symm, fail, none, 0, st0)
    IN  IF seeded.null_deref \/ seeded.queue = <<>> THEN seeded
        ELSE BoundaryLoop(mesh, seeded)

\* The result carries null_deref when a boundary query returned NULL and the
\* function read boundary->num_vertices through it, and queried, the vertex
\* ids handed to the boundary service.
sculpt_expand_boundary_topology_falloff_create(mesh, vertex, symm, fail, none) ==
    LET st0 == [dists |-> [i \in Verts(mesh) |-> F(0)], visited |-> {}, queue |-> <<>>,
                null_deref |-> FALSE, queried |-> <<>>]
        seeded == BoundarySeed(mesh, vertex, symm, fail, none, 0, st0)
    IN  IF seeded.null_deref \/ seeded.queue = <<>> THEN seeded
        ELSE LET done == BoundaryLoop(mesh, seeded)
             IN  [done EXCEPT !.dists = [i \in Verts(mesh) |->
                                            IF i \in done.visited THEN done.dists[i]
                                            ELSE F_FLT_MAX]]

(* ------------------------------------------------------------------ *)
(* State                                                              *)
(* ------------------------------------------------------------------ *)

\* The sculpt session's mesh, the symmetry flags of the paint settings, and the
\* symmetry iterations for which the nearest vertex search finds no vertex.
VARIABLES mesh, symm, nearest_fail, boundary_none

\* ExpandCache: the falloff field and what it was built from.  null_deref
\* records a read through a NULL boundary, boundary_queries the vertex ids
\* handed to the boundary service by the last build.
VARIABLES falloff_factor, max_falloff_factor, falloff_factor_type,
          initial_active_vertex, edge_sensitivity, null_deref, boundary_queries

falloffVars == <<mesh, symm, nearest_fail, boundary_none, falloff_factor, max_falloff_factor,
                 falloff_factor_type, initial_active_vertex, edge_sensitivity,
                 null_deref, boundary_queries>>

\* SculptSession: the mesh channels the expand operator writes, and the
\* element under the cursor as the last successful pick left it.
VARIABLES mask, face_sets, active_vertex, active_face_index

\* ExpandCache: every field but the falloff field above, as one record.
VARIABLE expand_cache

\* The operator: session is None before invoke, Active while the modal handler
\* is installed, Confirmed after OPERATOR_FINISHED, Cancelled after the cancel
\* callback; Hung and Crashed when invoke never returns.  modal_ret is the
\* value the last handler call returned, undo_open the undo steps begun and
\* not ended, last_event the last modal event handled.
VARIABLES session, modal_ret, undo_open, last_event, nevents

\* History: the channels as they were when the session started, the position
\* and the outcome of the last pointer move, and the position of the confirm.
VARIABLES start_mask, start_face_sets, pointer, move_mask, confirm_pointer

\* The parallel update of the mask or the colours: the leaf nodes of the PBVH
\* (expand_cache->nodes), the position of the update ("None", "Update", "Tasks",
\* "Flushed"), each task's place in its node, the tasks that visited and that
\* wrote each vertex, and the vertex colours with their snapshot.
VARIABLES pbvh, apply_step, task_cb, vert_visits, vert_writes, vcol

meshVars == <<mesh, symm, nearest_fail, boundary_none>>

applyVars == <<pbvh, apply_step, task_cb, vert_visits, vert_writes, vcol>>

fieldVars == <<falloff_factor, max_falloff_factor, falloff_factor_type,
               initial_active_vertex, edge_sensitivity, null_deref, boundary_queries>>

ssVars == <<mask, face_sets, active_vertex, active_face_index>>

opVars == <<session, modal_ret, undo_open, last_event, nevents>>

historyVars == <<start_mask, start_face_sets, pointer, move_mask, confirm_pointer>>

expandVars == <<meshVars, fieldVars, ssVars, expand_cache, opVars, historyVars, applyVars>>

\* The fill tool (tGPDfill): the offscreen image, the leak size, the direction
\* of the fill, the position in the fill pass, the stack of outline points, the
\* point count of the last outline and the size of the point buffer.
VARIABLES ibuf, fill_leak, is_inverted, fill_step, stack, totpoints, sbuffer_used

\* History: the image as it was rendered, the linear indices used outside the
\* image so far, the number of inversions applied, and the wall of the image
\* when it was drawn as a wall with an opening.
VARIABLES rendered, oob_access, inversions, wall

\* The datablock the fill tool draws (the layers in the order of the list and
\* the index of the active layer), the layer mode and the draw mode of the
\* brush, and the strokes the last render handed to the drawing functions.
VARIABLES gpd, fill_layer_mode, fill_draw_mode, drawn

\* The fill operator: what the context holds when it is invoked, the session
\* object (op->customdata, tGPDfill), the errors reported to the user, the
\* return value of the last handler, the state of the modal session, the
\* temporary resources with their allocations and releases, and the passes of
\* the last fill.
VARIABLES gp_context, tgpf, op_reports, estate, gp_session, resources, fill_log

drawVars == <<gpd, fill_layer_mode, fill_draw_mode, drawn>>

opFillVars == <<gp_context, tgpf, op_reports, estate, gp_session, resources, fill_log>>

gpVars == <<drawVars, opFillVars>>

fillVars == <<ibuf, fill_leak, is_inverted, fill_step, stack, totpoints, sbuffer_used,
              rendered, oob_access, inversions, wall, gpVars>>

vars == <<expandVars, fillVars>>

\* The state of the datablock variables while nothing is drawn.
DrawIdle ==
    /\ gpd = <<>>
    /\ fill_layer_mode = "NONE"
    /\ fill_draw_mode = "NONE"
    /\ drawn = <<>>

\* The state of the operator variables while no fill operator exists.
OpFillIdle ==
    /\ gp_context = <<>>
    /\ tgpf = <<>>
    /\ op_reports = <<>>
    /\ estate = "NONE"
    /\ gp_session = "None"
    /\ resources = <<>>
    /\ fill_log = <<>>

\* The state of the fill variables while no fill runs.
FillIdle ==
    /\ DrawIdle
    /\ OpFillIdle
    /\ ibuf = [x |-> 0, y |-> 0, rect_float |-> <<>>]
    /\ fill_leak = 0
    /\ is_inverted = FALSE
    /\ fill_step = "None"
    /\ stack = <<>>
    /\ totpoints = 0
    /\ sbuffer_used = 0
    /\ rendered = <<>>
    /\ oob_access = {}
    /\ inversions = 0
    /\ wall = <<>>


(* ------------------------------------------------------------------ *)
(* SpecFalloff: the falloff builders on every mesh and origin         *)
(* ------------------------------------------------------------------ *)

\* Largest symmetry flag set tried (bit 1 mirrors X, bit 2 mirrors Y).
MaxSymm == 1

FalloffMeshes == GraphMeshes \cup {Rhombus, Split, SeamGrids, Grid5, Tube}

\* What malloc may hand back as the content of a fresh float array.
Garbage == {F(0), F(-7), F_NAN}

\* The state of the update variables while no parallel update is followed.
ApplyIdle ==
    /\ pbvh = <<>>
    /\ apply_step = "None"
    /\ task_cb = <<>>
    /\ vert_visits = <<>>
    /\ vert_writes = <<>>
    /\ vcol = <<>>

\* The state of the variables no session is using.
SessionIdle ==
    /\ ApplyIdle
    /\ mask = <<>>
    /\ face_sets = <<>>
    /\ active_vertex = SCULPT_EXPAND_VERTEX_NONE
    /\ active_face_index = -1
    /\ expand_cache = <<>>
    /\ session = "None"
    /\ modal_ret = "NONE"
    /\ undo_open = 0
    /\ last_event = "NONE"
    /\ nevents = 0
    /\ start_mask = <<>>
    /\ start_face_sets = <<>>
    /\ pointer = -1
    /\ move_mask = <<>>
    /\ confirm_pointer = -1

sessionVars == <<ssVars, expand_cache, opVars, historyVars, applyVars>>

FalloffInit ==
    /\ SessionIdle
    /\ FillIdle
    /\ mesh \in FalloffMeshes
    /\ symm \in 0..MaxSymm
    /\ nearest_fail \in SUBSET (1..symm)
    /\ boundary_none \in BoundaryNone
    /\ initial_active_vertex \in Verts(mesh)
    /\ falloff_factor = <<>>
    /\ max_falloff_factor = F(0)
    /\ falloff_factor_type = "NONE"
    /\ edge_sensitivity = 0
    /\ null_deref = FALSE
    /\ boundary_queries = <<>>

FalloffStore(type, dists) ==
    /\ falloff_factor' = dists
    /\ falloff_factor_type' = type
    /\ max_falloff_factor' = sculpt_expand_update_max_falloff_factor(mesh, dists)
    /\ UNCHANGED <<mesh, symm, nearest_fail, boundary_none, initial_active_vertex, sessionVars, fillVars>>

BuildGeodesic ==
    /\ falloff_factor_type = "NONE"
    /\ FalloffStore("GEODESICS",
           sculpt_expand_geodesic_falloff_create(mesh, initial_active_vertex, symm, nearest_fail))
    /\ UNCHANGED <<edge_sensitivity, null_deref, boundary_queries>>

BuildTopology ==
    /\ falloff_factor_type = "NONE"
    /\ FalloffStore("TOPOLOGY",
           sculpt_expand_topology_falloff_create(mesh, initial_active_vertex, symm, nearest_fail))
    /\ UNCHANGED <<edge_sensitivity, null_deref, boundary_queries>>

BuildNormals ==
    /\ falloff_factor_type = "NONE"
    /\ \E sens \in (0..MaxSensitivity) \cup {NORMALS_EDGE_SENSITIVITY}, garbage \in Garbage :
          /\ edge_sensitivity' = sens
          /\ FalloffStore("NORMALS",
                 sculpt_expand_normal_falloff_create(mesh, initial_active_vertex, sens,
                                                     symm, nearest_fail, garbage))
    /\ UNCHANGED <<null_deref, boundary_queries>>

BuildSpherical ==
    /\ falloff_factor_type = "NONE"
    /\ FalloffStore("SPHERICAL",
           sculpt_expand_spherical_falloff_create(mesh, initial_active_vertex, symm, nearest_fail))
    /\ UNCHANGED <<edge_sensitivity, null_deref, boundary_queries>>

\* A read through the NULL boundary ends the program: nothing is stored.
BuildBoundaryTopology ==
    /\ falloff_factor_type = "NONE"
    /\ LET built == sculpt_expand_boundary_topology_falloff_create(
                        mesh, initial_active_vertex, symm, nearest_fail, boundary_none)
       IN  /\ null_deref' = built.null_deref
           /\ boundary_queries' = built.queried
           /\ IF built.null_deref
              THEN /\ falloff_factor_type' = "CRASHED"
                   /\ UNCHANGED <<mesh, symm, nearest_fail, boundary_none, initial_active_vertex,
                                  falloff_factor, max_falloff_factor, sessionVars, fillVars>>
              ELSE FalloffStore("BOUNDARY_TOPOLOGY", built.dists)
    /\ UNCHANGED edge_sensitivity

FalloffNext ==
    \/ BuildGeodesic
    \/ BuildTopology
    \/ BuildNormals
    \/ BuildSpherical
    \/ BuildBoundaryTopology

SpecFalloff == FalloffInit /\ [][FalloffNext]_vars

(* ------------------------------------------------------------------ *)
(* Properties of the falloff builders                                 *)
(* ------------------------------------------------------------------ *)

\* The origins a build resolves: the given vertex and, for every valid symmetry
\* iteration, the vertex nearest to its mirrored position (when one is found).
ResolvedOrigins ==
    {SymmOrigin(mesh, initial_active_vertex, i, nearest_fail) :
        i \in {j \in 0..symm : SCULPT_is_symmetry_iteration_valid(j, symm)}}
    \ {SCULPT_EXPAND_VERTEX_NONE}

\* Vertices joined to S by duplicate (seam) edges only.
SeamClosure(S) ==
    LET RECURSIVE Grow(_)
        Grow(T) ==
            LET more == T \cup UNION {{mesh.nb[v][k].index :
                                          k \in {j \in DOMAIN mesh.nb[v] :
                                                   mesh.nb[v][j].is_duplicate}} : v \in T}
            IN  IF more = T THEN T ELSE Grow(more)
    IN  Grow(S)

\* Vertices at most h counted edges away from the set S.
HopBall(S, h) ==
    LET RECURSIVE Ball(_)
        Ball(n) ==
            IF n = 0 THEN SeamClosure(S)
            ELSE LET inner == Ball(n - 1)
                 IN  SeamClosure(inner \cup
                        UNION {{mesh.nb[v][k].index :
                                  k \in {j \in DOMAIN mesh.nb[v] :
                                           ~mesh.nb[v][j].is_duplicate}} : v \in inner})
    IN  Ball(h)

HopReachable(S) == HopBall(S, mesh.totvert)

\* The shortest hop count from the set S to the reachable vertex v.
HopCount(S, v) == SetMin({h \in 0..mesh.totvert : v \in HopBall(S, h)})

C5_SphericalSymmetryMin ==
    (/\ falloff_factor_type = "SPHERICAL"
     /\ \A i \in 1..symm : SCULPT_is_symmetry_iteration_valid(i, symm) => i \notin nearest_fail)
    => \A v \in Verts(mesh) :
          falloff_factor[v] =
              F(SetMin({len_v3v3(mesh.co[o], mesh.co[v]) : o \in ResolvedOrigins}))

\* A spherical field built from two different origins in which some vertex is
\* nearer to the mirrored origin than to the given one.
C5_Witness ==
    /\ falloff_factor_type = "SPHERICAL"
    /\ symm = 1
    /\ nearest_fail = {}
    /\ Cardinality(ResolvedOrigins) = 2
    /\ \E v \in Verts(mesh) :
          FLess(falloff_factor[v],
                F(len_v3v3(mesh.co[initial_active_vertex], mesh.co[v])))

\* C6: after a NormalSimilarity build every value lies in [0,1].
C6_NormalBounds ==
    falloff_factor_type = "NORMALS" =>
        \A v \in Verts(mesh) :
            FLessEq(F(0), falloff_factor[v]) /\ FLessEq(falloff_factor[v], F(1))

(* ------------------------------------------------------------------ *)
(* The expand operator (sculpt_expand.c): state queries and updates   *)
(* ------------------------------------------------------------------ *)

SCULPT_EXPAND_TARGET_MASK == "MASK"
SCULPT_EXPAND_TARGET_FACE_SETS == "FACE_SETS"

OPERATOR_RUNNING_MODAL == "RUNNING_MODAL"
OPERATOR_FINISHED == "FINISHED"

\* pmap: the faces around a vertex, in index order.
VertFaces(m, v) == {f \in Faces(m) : \E l \in DOMAIN m.mpoly[f] : m.mpoly[f][l] = v}

\* SCULPT_vertex_face_set_get on a mesh: the largest id around the vertex.
SCULPT_vertex_face_set_get(m, fsets, v) ==
    IF VertFaces(m, v) = {} THEN 0
    ELSE SetMax({Abs(fsets[f]) : f \in VertFaces(m, v)})

\* SCULPT_active_face_set_get: the id of the face under the cursor.
SCULPT_active_face_set_get(fsets, face_index) == fsets[face_index]

\* ED_sculpt_face_sets_find_next_available_id: one more than the largest id.
ED_sculpt_face_sets_find_next_available_id(m, fsets) ==
    SetMax({Abs(fsets[f]) : f \in Faces(m)} \cup {0}) + 1

sculpt_expand_state_get(m, c, ff, fsets, i) ==
    LET enabled == IF c.snap
                   THEN SCULPT_vertex_face_set_get(m, fsets, i) \in c.snap_enabled_face_sets.keys
                   ELSE FLessEq(ff[i], c.active_factor)
    IN  IF c.invert THEN ~enabled ELSE enabled

sculpt_expand_face_state_get(c, fsets, f) ==
    LET enabled == IF ~c.snap_enabled_face_sets.null
                   THEN fsets[f] \in c.snap_enabled_face_sets.keys
                   ELSE FLessEq(c.face_falloff_factor[f], c.active_factor)
    IN  IF c.invert THEN ~enabled ELSE enabled

sculpt_expand_gradient_falloff_get(c, ff, max_ff_factor, i) ==
    IF ~c.falloff_gradient THEN F(1)
    ELSE IF c.invert
    THEN FDiv(FSub(ff[i], c.active_factor), FSub(max_ff_factor, c.active_factor))
    ELSE FSub(F(1), FDiv(ff[i], c.active_factor))

\* A mask update that, with preserve, keeps the larger of the new value and the
\* value the vertex holds, in place of the value of the snapshot.
MutMaskAccumulates(m, c, ff, max_ff_factor, fsets, cur_mask, i) ==
    LET enabled == sculpt_expand_state_get(m, c, ff, fsets, i)
        graded == IF enabled THEN sculpt_expand_gradient_falloff_get(c, ff, max_ff_factor, i)
                  ELSE F(0)
        new_mask == IF c.preserve THEN max_ff(graded, cur_mask[i]) ELSE graded
    IN  IF FEq(new_mask, cur_mask[i]) THEN cur_mask[i]
        ELSE clamp_f(new_mask, F(0), F(1))

\* The body of sculpt_expand_mask_update_task_cb for one vertex: the value the
\* vertex holds afterwards.
sculpt_expand_mask_update_task_cb(m, c, ff, max_ff_factor, fsets, cur_mask, i) ==
    LET enabled == sculpt_expand_state_get(m, c, ff, fsets, i)
        graded == IF enabled THEN sculpt_expand_gradient_falloff_get(c, ff, max_ff_factor, i)
                  ELSE F(0)
        new_mask == IF c.preserve THEN max_ff(graded, c.initial_mask[i]) ELSE graded
    IN  IF FEq(new_mask, cur_mask[i]) THEN cur_mask[i]
        ELSE clamp_f(new_mask, F(0), F(1))

\* sculpt_expand_face_sets_update: the faces are visited in index order.
RECURSIVE sculpt_expand_face_sets_update(_, _, _, _)
sculpt_expand_face_sets_update(m, c, fsets, f) ==
    IF f >= m.totface THEN fsets
    ELSE IF ~sculpt_expand_face_state_get(c, fsets, f)
    THEN sculpt_expand_face_sets_update(m, c, fsets, f + 1)
    ELSE sculpt_expand_face_sets_update(m, c,
             [fsets EXCEPT ![f] = IF c.preserve THEN fsets[f] + c.next_face_set
                                  ELSE c.next_face_set],
             f + 1)

sculpt_expand_face_sets_restore(c) == c.initial_face_sets

\* sculpt_expand_update_for_vertex: the new cache, mask and face sets.
sculpt_expand_update_for_vertex(m, c, ff, max_ff_factor, cur_mask, fsets, vertex) ==
    LET c1 == [c EXCEPT !.active_factor =
                  IF vertex = SCULPT_EXPAND_VERTEX_NONE THEN max_ff_factor ELSE ff[vertex]]
    IN  IF c1.target = SCULPT_EXPAND_TARGET_FACE_SETS
        THEN [cache |-> c1, mask |-> cur_mask,
              face_sets |-> sculpt_expand_face_sets_update(
                                m, c1, sculpt_expand_face_sets_restore(c1), 0)]
        ELSE [cache |-> c1,
              mask |-> [i \in Verts(m) |->
                          sculpt_expand_mask_update_task_cb(m, c1, ff, max_ff_factor,
                                                            fsets, cur_mask, i)],
              face_sets |-> fsets]

sculpt_expand_bitmap_from_enabled(m, c, ff, fsets) ==
    {i \in Verts(m) : sculpt_expand_state_get(m, c, ff, fsets, i)}

\* The mean of the vertex values around each polygon.
sculpt_expand_mesh_face_falloff_from_vertex_falloff(m, ff) ==
    LET RECURSIVE Accum(_, _, _)
        Accum(poly, l, accum) ==
            IF l > Len(poly) THEN accum
            ELSE Accum(poly, l + 1, FAdd(accum, ff[poly[l]]))
    IN  [p \in Faces(m) |-> FDiv(Accum(m.mpoly[p], 1, F(0)), F(Len(m.mpoly[p])))]

sculpt_expand_update_max_face_falloff_factor(m, face_falloff_factor) ==
    LET RECURSIVE Loop(_, _)
        Loop(i, max) ==
            IF i >= m.totface THEN max
            ELSE IF FEq(face_falloff_factor[i], F_FLT_MAX) THEN Loop(i + 1, max)
            ELSE Loop(i + 1, max_ff(max, face_falloff_factor[i]))
    IN  Loop(0, F(-FLT_MAX))

\* The id a face of the delete id takes over: the id of the last face around
\* its vertices that carries another id, delete_id when there is none.
DeleteOtherId(m, fsets, f_index, delete_id) ==
    LET RECURSIVE OverFaces(_, _, _)
        OverFaces(indices, i, other_id) ==
            IF i > Len(indices) THEN other_id
            ELSE OverFaces(indices, i + 1,
                           IF fsets[indices[i]] # delete_id THEN fsets[indices[i]]
                           ELSE other_id)
        RECURSIVE OverLoops(_, _)
        OverLoops(l, other_id) ==
            IF l > Len(m.mpoly[f_index]) THEN other_id
            ELSE OverLoops(l + 1,
                           OverFaces(SortedSeq(VertFaces(m, m.mpoly[f_index][l])), 1, other_id))
    IN  OverLoops(1, delete_id)

\* One run of the inner loop: faces are popped from the top of the stack until
\* the stack is empty or the popped index is 0.
RECURSIVE DeletePop(_, _, _, _, _)
DeletePop(m, fsets, queue, queue_next, delete_id) ==
    IF queue = <<>> \/ Head(queue) = 0
    THEN [face_sets |-> fsets,
          queue |-> IF queue = <<>> THEN <<>> ELSE Tail(queue),
          queue_next |-> queue_next]
    ELSE LET f_index == Head(queue)
             other_id == DeleteOtherId(m, fsets, f_index, delete_id)
         IN  IF other_id # delete_id
             THEN DeletePop(m, [fsets EXCEPT ![f_index] = other_id], Tail(queue),
                            queue_next, delete_id)
             ELSE DeletePop(m, fsets, Tail(queue), <<f_index>> \o queue_next, delete_id)

\* The outer loop; a stack is a sequence with its top first.  A pass that
\* changes nothing and queues again every face it popped repeats forever: hang.
RECURSIVE DeleteLoop(_, _, _, _, _)
DeleteLoop(m, fsets, queue, queue_next, delete_id) ==
    IF queue = <<>> THEN [hang |-> FALSE, face_sets |-> fsets]
    ELSE LET pass == DeletePop(m, fsets, queue, queue_next, delete_id)
         IN  IF /\ pass.face_sets = fsets
                /\ pass.queue = <<>>
                /\ queue_next = <<>>
                /\ SeqRange(pass.queue_next) = SeqRange(queue)
             THEN [hang |-> TRUE, face_sets |-> fsets]
             ELSE DeleteLoop(m, pass.face_sets, pass.queue_next, pass.queue, delete_id)

sculpt_expand_delete_face_set_id(m, fsets, delete_id) ==
    LET carriers == SortedSeq({i \in Faces(m) : fsets[i] = delete_id})
        queue == [k \in 1..Len(carriers) |-> carriers[Len(carriers) + 1 - k]]
    IN  DeleteLoop(m, fsets, queue, <<>>, delete_id)

\* The face field of the face set target and its maximum, stored in the cache
\* once the vertex field is built.
FaceFalloffStore(m, c, fff) ==
    [c EXCEPT !.face_falloff_factor = fff,
              !.max_face_falloff_factor =
                  sculpt_expand_update_max_face_falloff_factor(m, fff)]

CacheWithFaceFalloff(m, c, ff) ==
    IF c.target = SCULPT_EXPAND_TARGET_FACE_SETS
    THEN FaceFalloffStore(m, c, sculpt_expand_mesh_face_falloff_from_vertex_falloff(m, ff))
    ELSE c

\* What a falloff build leaves: the field, its maximum and the cache.
FalloffBuilt(m, c, ff, queried) ==
    [null_deref |-> FALSE, queried |-> queried,
     falloff_factor |-> ff,
     max_falloff_factor |-> sculpt_expand_update_max_falloff_factor(m, ff),
     cache |-> CacheWithFaceFalloff(m, c, ff)]

BoundaryFalloffBuilt(m, c, bt) ==
    IF bt.null_deref
    THEN [null_deref |-> TRUE, queried |-> bt.queried]
    ELSE FalloffBuilt(m, c, bt.dists, bt.queried)

\* sculpt_expand_falloff_factors_from_vertex_and_symm_create: the new field,
\* its maxima and the face field of the face set target.
ExpandFalloffCreate(m, c, vertex, sy, fail, type) ==
    CASE type = "GEODESICS" ->
             FalloffBuilt(m, c, sculpt_expand_geodesic_falloff_create(m, vertex, sy, fail),
                          <<>>)
      [] type = "TOPOLOGY" ->
             FalloffBuilt(m, c, sculpt_expand_topology_falloff_create(m, vertex, sy, fail),
                          <<>>)
      [] type = "SPHERICAL" ->
             FalloffBuilt(m, c, sculpt_expand_spherical_falloff_create(m, vertex, sy, fail),
                          <<>>)
      [] type = "BOUNDARY_TOPOLOGY" ->
             BoundaryFalloffBuilt(m, c,
                 sculpt_expand_boundary_topology_falloff_create(m, vertex, sy, fail, boundary_none))

\* The enabled vertices that have a disabled neighbour.
RecursionInitialVertices(m, enabled_vertices) ==
    {i \in enabled_vertices :
        \E k \in DOMAIN Neighbors(m, i) :
            Neighbors(m, i)[k].index \notin enabled_vertices}

\* sculpt_expand_resursion_step_add: the field becomes the geodesic distance
\* from the enabled vertices that have a disabled neighbour.
sculpt_expand_resursion_step_add(m, c, ff, fsets) ==
    FalloffBuilt(m, c,
        SCULPT_geodesic_distances_create(
            m, RecursionInitialVertices(m, sculpt_expand_bitmap_from_enabled(m, c, ff, fsets))),
        <<>>)

\* A snap initialisation that skips the removal loop: every snapshot id stays.
MutSnapKeepsAll(m, c, ff, fsets) ==
    [c EXCEPT !.snap_enabled_face_sets =
         [null |-> FALSE, keys |-> {c.initial_face_sets[i] : i \in Faces(m)}]]

\* The GSet of the snap mode, a set of ids: adding a key the set holds leaves
\* the set as it is, and a removal takes the key out.
BLI_gset_add(gs, key) == gs \cup {key}

BLI_gset_haskey(gs, key) == key \in gs

BLI_gset_remove(gs, key) == gs \ {key}

\* The first loop of sculpt_expand_snap_initialize_from_enabled: the snapshot
\* id of every face is added.
RECURSIVE SnapAddLoop(_, _, _, _)
SnapAddLoop(m, c, gs, i) ==
    IF i >= m.totface THEN gs
    ELSE SnapAddLoop(m, c, BLI_gset_add(gs, c.initial_face_sets[i]), i + 1)

\* The second loop: the id of a face with a disabled vertex is removed.
RECURSIVE SnapRemoveLoop(_, _, _, _, _)
SnapRemoveLoop(m, c, enabled_vertices, gs, p) ==
    IF p >= m.totface THEN gs
    ELSE LET any_disabled == \E l \in DOMAIN m.mpoly[p] :
                                 m.mpoly[p][l] \notin enabled_vertices
             face_set == c.initial_face_sets[p]
         IN  SnapRemoveLoop(m, c, enabled_vertices,
                            IF any_disabled /\ BLI_gset_haskey(gs, face_set)
                            THEN BLI_gset_remove(gs, face_set) ELSE gs,
                            p + 1)

\* sculpt_expand_snap_initialize_from_enabled: the enabled vertices are taken
\* with the snap and invert flags cleared, and the flags are put back.
sculpt_expand_snap_initialize_from_enabled(m, c, ff, fsets) ==
    LET plain == [c EXCEPT !.snap = FALSE, !.invert = FALSE]
        enabled_vertices == sculpt_expand_bitmap_from_enabled(m, plain, ff, fsets)
        all == SnapAddLoop(m, c, c.snap_enabled_face_sets.keys, 0)
    IN  [c EXCEPT !.snap_enabled_face_sets =
             [null |-> FALSE, keys |-> SnapRemoveLoop(m, c, enabled_vertices, all, 0)]]

(* ------------------------------------------------------------------ *)
(* SpecExpand: one expand session, from invoke to its end             *)
(* ------------------------------------------------------------------ *)

\* Most modal events handled in one session, the terminal one not counted.
MaxEvents == 2

ExpandMeshes == {Rhombus, Split, Bipyramid}

\* Where the pointer can be: over a vertex of this id, or off the mesh (-1).
PointerPositions == {-1, 0, 3}

\* The mask and the face set ids of the mesh before the session.
InitialMask(m) == [v \in Verts(m) |-> <<F(0), Frac(1, 2), F(1)>>[(v % 3) + 1]]

InitialFaceSets(m) == [f \in Faces(m) |-> 1 + (f % 2)]

\* What a read past the end of a heap block finds: the value the program
\* wrote there, or what another owner of those bytes left.
PastEnd == {"WRITTEN", "OTHER"}

\* The face sets of sculpt_expand_initial_state_store: initial_face_sets is
\* allocated with totvert entries and written for totface faces, so the
\* entries from totvert on lie past the end of the block.
StoreInitialFaceSets(m, fsets, past_end) ==
    [f \in Faces(m) |-> IF f < m.totvert \/ past_end = "WRITTEN" THEN fsets[f] ELSE 0]

\* The cache as MEM_callocN returns it.
CallocCache ==
    [target |-> SCULPT_EXPAND_TARGET_MASK, invert |-> FALSE, preserve |-> FALSE,
     falloff_gradient |-> FALSE, modify_active |-> FALSE, snap |-> FALSE,
     snap_enabled_face_sets |-> [null |-> TRUE, keys |-> {}], move |-> FALSE,
     active_factor |-> F(0), initial_mask |-> <<>>, initial_face_sets |-> <<>>,
     next_face_set |-> 0, initial_active_face_set |-> 0,
     initial_mouse |-> 0, initial_mouse_move |-> 0, original_mouse_move |-> 0,
     face_falloff_factor |-> <<>>, max_face_falloff_factor |-> F(0), freed |-> FALSE]

\* SCULPT_cursor_geometry_info_update: a hit makes the vertex and a face around
\* it the active elements; a miss leaves them.
CursorPick(m, p) ==
    IF p \in Verts(m) /\ VertFaces(m, p) # {}
    THEN [hit |-> TRUE, vertex |-> p, face |-> SetMin(VertFaces(m, p))]
    ELSE [hit |-> FALSE, vertex |-> SCULPT_EXPAND_VERTEX_NONE, face |-> -1]

sculpt_expand_target_vertex_update_and_get(m, p) == CursorPick(m, p).vertex

ActiveVertexAfter(m, p, old) == IF CursorPick(m, p).hit THEN CursorPick(m, p).vertex ELSE old

ActiveFaceAfter(m, p, old) == IF CursorPick(m, p).hit THEN CursorPick(m, p).face ELSE old

\* sculpt_expand_set_initial_components_for_mouse, given the active elements
\* as the pick at the mouse position left them.
sculpt_expand_set_initial_components_for_mouse(m, c, fsets, p, av, af) ==
    LET active_face_set == SCULPT_active_face_set_get(fsets, af)
    IN  [cache |-> [c EXCEPT !.initial_mouse = p,
                             !.initial_active_face_set = active_face_set,
                             !.next_face_set =
                                 IF c.modify_active THEN active_face_set
                                 ELSE ED_sculpt_face_sets_find_next_available_id(m, fsets)],
         initial_active_vertex |-> av]

ExpandInit ==
    /\ ApplyIdle
    /\ mesh \in ExpandMeshes
    /\ symm = 0
    /\ nearest_fail = {}
    /\ boundary_none \in BoundaryNone
    /\ falloff_factor = <<>>
    /\ max_falloff_factor = F(0)
    /\ falloff_factor_type = "NONE"
    /\ initial_active_vertex = SCULPT_EXPAND_VERTEX_NONE
    /\ edge_sensitivity = 0
    /\ null_deref = FALSE
    /\ boundary_queries = <<>>
    /\ mask = InitialMask(mesh)
    /\ face_sets = InitialFaceSets(mesh)
    /\ active_vertex = 0
    /\ active_face_index = 0
    /\ expand_cache = CallocCache
    /\ session = "None"
    /\ modal_ret = "NONE"
    /\ undo_open = 0
    /\ last_event = "NONE"
    /\ nevents = 0
    /\ start_mask = <<>>
    /\ start_face_sets = <<>>
    /\ pointer = -1
    /\ move_mask = <<>>
    /\ confirm_pointer = -1
    /\ FillIdle

\* What every expand action leaves alone outside the session.
ExpandFrame ==
    UNCHANGED <<mesh, symm, nearest_fail, boundary_none, edge_sensitivity, applyVars, fillVars>>

\* The end of sculpt_expand_invoke: the field and the first update are stored
\* and the handler becomes modal.
InvokeStore(falloff_type, built, upd) ==
    /\ session' = "Active"
    /\ modal_ret' = OPERATOR_RUNNING_MODAL
    /\ falloff_factor' = built.falloff_factor
    /\ max_falloff_factor' = built.max_falloff_factor
    /\ falloff_factor_type' = falloff_type
    /\ boundary_queries' = built.queried
    /\ null_deref' = FALSE
    /\ expand_cache' = upd.cache
    /\ mask' = upd.mask
    /\ face_sets' = upd.face_sets

\* After the falloff build: a build that read through the null boundary ends
\* the program; otherwise the update for the origin follows.
InvokeBuilt(c1, vertex, falloff_type, built) ==
    IF built.null_deref
    THEN /\ session' = "Crashed"
         /\ expand_cache' = c1
         /\ null_deref' = TRUE
         /\ boundary_queries' = built.queried
         /\ UNCHANGED <<falloff_factor, max_falloff_factor, falloff_factor_type,
                        mask, face_sets, modal_ret>>
    ELSE InvokeStore(falloff_type, built,
                     sculpt_expand_update_for_vertex(
                         mesh, built.cache, built.falloff_factor,
                         built.max_falloff_factor, mask, face_sets, vertex))

\* The falloff type of the invoke: boundary topology for a boundary origin,
\* geodesic otherwise.
InvokeBuild(c1, vertex, falloff_type) ==
    InvokeBuilt(c1, vertex, falloff_type,
                ExpandFalloffCreate(mesh, c1, vertex, symm, nearest_fail, falloff_type))

\* After sculpt_expand_delete_face_set_id on the snapshot of the face sets.
InvokeErased(comp, erased) ==
    IF erased.hang
    THEN /\ session' = "Hung"
         /\ expand_cache' = [comp.cache EXCEPT !.initial_mask = mask,
                                               !.initial_face_sets = erased.face_sets]
         /\ UNCHANGED <<falloff_factor, max_falloff_factor, falloff_factor_type,
                        null_deref, boundary_queries, mask, face_sets, modal_ret>>
    ELSE InvokeBuild([comp.cache EXCEPT !.initial_mask = mask,
                                        !.initial_face_sets = erased.face_sets],
                     comp.initial_active_vertex,
                     IF SCULPT_vertex_is_boundary(mesh, comp.initial_active_vertex)
                     THEN "BOUNDARY_TOPOLOGY" ELSE "GEODESICS")

\* After sculpt_expand_set_initial_components_for_mouse: the snapshot, and the
\* erase of the active face set when the operator modifies it.
InvokeComponents(p, av, af, comp, stored) ==
    /\ active_vertex' = av
    /\ active_face_index' = af
    /\ initial_active_vertex' = comp.initial_active_vertex
    /\ undo_open' = undo_open + 1
    /\ start_mask' = mask
    /\ start_face_sets' = face_sets
    /\ pointer' = p
    /\ UNCHANGED <<move_mask, confirm_pointer, last_event, nevents>>
    /\ InvokeErased(comp,
                    IF comp.cache.modify_active
                    THEN sculpt_expand_delete_face_set_id(mesh, stored,
                                                          comp.cache.next_face_set)
                    ELSE [hang |-> FALSE, face_sets |-> stored])

InvokePick(p, c0, av, af, stored) ==
    InvokeComponents(p, av, af,
        sculpt_expand_set_initial_components_for_mouse(mesh, c0, face_sets, p, av, af),
        stored)

\* sculpt_expand_invoke.
ExpandInvoke ==
    /\ session = "None"
    /\ \E p \in PointerPositions, target \in {SCULPT_EXPAND_TARGET_MASK,
                                              SCULPT_EXPAND_TARGET_FACE_SETS},
          op_invert \in BOOLEAN, op_modify_active \in BOOLEAN, past_end \in PastEnd :
        InvokePick(p,
                   [CallocCache EXCEPT !.invert = op_invert, !.target = target,
                                       !.modify_active = op_modify_active],
                   ActiveVertexAfter(mesh, p, active_vertex),
                   ActiveFaceAfter(mesh, p, active_face_index),
                   StoreInitialFaceSets(mesh, face_sets, past_end))
    /\ ExpandFrame

\* The start of sculpt_expand_modal for every event: the pick at the event's
\* position, and the bookkeeping of a handler call that returns running.
ModalPrologue(p, event) ==
    /\ session = "Active"
    /\ nevents < MaxEvents
    /\ nevents' = nevents + 1
    /\ last_event' = event
    /\ active_vertex' = ActiveVertexAfter(mesh, p, active_vertex)
    /\ active_face_index' = ActiveFaceAfter(mesh, p, active_face_index)
    /\ modal_ret' = OPERATOR_RUNNING_MODAL
    /\ UNCHANGED <<session, undo_open, start_mask, start_face_sets, confirm_pointer>>
    /\ ExpandFrame

\* A modal map event that changes nothing but the cache; no update follows.
ModalCacheOnly(event, c) ==
    /\ ModalPrologue(pointer, event)
    /\ expand_cache' = c
    /\ move_mask' = <<>>
    /\ UNCHANGED <<fieldVars, mask, face_sets, pointer>>

ModalInvert ==
    ModalCacheOnly("INVERT", [expand_cache EXCEPT !.invert = ~expand_cache.invert])

ModalPreserveToggle ==
    ModalCacheOnly("PRESERVE_TOGGLE", [expand_cache EXCEPT !.preserve = ~expand_cache.preserve])

ModalGradientToggle ==
    ModalCacheOnly("GRADIENT_TOGGLE",
                   [expand_cache EXCEPT !.falloff_gradient = ~expand_cache.falloff_gradient])

ModalSnapToggle ==
    ModalCacheOnly("SNAP_TOGGLE",
        IF expand_cache.snap
        THEN [expand_cache EXCEPT !.snap = FALSE,
                                  !.snap_enabled_face_sets = [null |-> TRUE, keys |-> {}]]
        ELSE sculpt_expand_snap_initialize_from_enabled(
                 mesh,
                 [expand_cache EXCEPT !.snap = TRUE,
                      !.snap_enabled_face_sets =
                          IF expand_cache.snap_enabled_face_sets.null
                          THEN [null |-> FALSE, keys |-> {}]
                          ELSE expand_cache.snap_enabled_face_sets],
                 falloff_factor, face_sets))

ModalMoveToggle ==
    ModalCacheOnly("MOVE_TOGGLE",
        IF expand_cache.move
        THEN [expand_cache EXCEPT !.move = FALSE]
        ELSE [expand_cache EXCEPT !.move = TRUE,
                                  !.initial_mouse_move = pointer,
                                  !.original_mouse_move = expand_cache.initial_mouse])

\* SCULPT_EXPAND_MODAL_CANCEL is an item of the modal key map, and the switch
\* has no case for it.
ModalCancel == ModalCacheOnly("CANCEL", expand_cache)

RecursionStore(step) ==
    /\ falloff_factor' = step.falloff_factor
    /\ max_falloff_factor' = step.max_falloff_factor
    /\ expand_cache' = step.cache

ModalRecursionStep ==
    /\ ModalPrologue(pointer, "RECURSION_STEP")
    /\ RecursionStore(sculpt_expand_resursion_step_add(mesh, expand_cache, falloff_factor,
                                                       face_sets))
    /\ move_mask' = <<>>
    /\ UNCHANGED <<falloff_factor_type, initial_active_vertex, null_deref,
                   boundary_queries, mask, face_sets, pointer>>

ModalFalloffStore(type, built) ==
    /\ falloff_factor' = built.falloff_factor
    /\ max_falloff_factor' = built.max_falloff_factor
    /\ falloff_factor_type' = type
    /\ expand_cache' = built.cache

ModalFalloffEvent(type) ==
    CASE type = "GEODESICS" -> "FALLOFF_GEODESICS"
      [] type = "TOPOLOGY" -> "FALLOFF_TOPOLOGY"
      [] type = "SPHERICAL" -> "FALLOFF_SPHERICAL"

\* SCULPT_EXPAND_MODAL_FALLOFF_GEODESICS, _TOPOLOGY and _SPHERICAL.
ModalFalloff ==
    \E type \in {"GEODESICS", "TOPOLOGY", "SPHERICAL"} :
        /\ ModalPrologue(pointer, ModalFalloffEvent(type))
        /\ ModalFalloffStore(type,
               ExpandFalloffCreate(mesh, expand_cache, initial_active_vertex,
                                   symm, nearest_fail, type))
        /\ move_mask' = <<>>
        /\ UNCHANGED <<initial_active_vertex, null_deref, boundary_queries,
                       mask, face_sets, pointer>>

MutConfirmVertexNone(target_expand_vertex) == SCULPT_EXPAND_VERTEX_NONE

\* The confirm applies the update for the vertex under the event's position.
ConfirmVertex(target_expand_vertex) == target_expand_vertex

\* sculpt_expand_finish: the undo step ends and the cache is freed.
sculpt_expand_finish(c) == [c EXCEPT !.freed = TRUE]

ConfirmStore(upd) ==
    /\ mask' = upd.mask
    /\ face_sets' = upd.face_sets
    /\ expand_cache' = sculpt_expand_finish(upd.cache)

ModalConfirm ==
    /\ session = "Active"
    /\ \E p \in PointerPositions :
        /\ active_vertex' = ActiveVertexAfter(mesh, p, active_vertex)
        /\ active_face_index' = ActiveFaceAfter(mesh, p, active_face_index)
        /\ confirm_pointer' = p
        /\ ConfirmStore(sculpt_expand_update_for_vertex(
                            mesh, expand_cache, falloff_factor, max_falloff_factor,
                            mask, face_sets,
                            ConfirmVertex(sculpt_expand_target_vertex_update_and_get(mesh, p))))
    /\ undo_open' = undo_open - 1
    /\ session' = "Confirmed"
    /\ modal_ret' = OPERATOR_FINISHED
    /\ last_event' = "CONFIRM"
    /\ UNCHANGED <<fieldVars, nevents, start_mask, start_face_sets, pointer, move_mask>>
    /\ ExpandFrame

\* The end of a pointer move: the update for the vertex under the pointer.
MoveStore(built, upd) ==
    /\ session' = "Active"
    /\ falloff_factor' = built.falloff_factor
    /\ max_falloff_factor' = built.max_falloff_factor
    /\ expand_cache' = upd.cache
    /\ mask' = upd.mask
    /\ face_sets' = upd.face_sets
    /\ move_mask' = upd.mask

\* With snap on, the face set under the cursor joins the enabled set.
MoveSnapped(c, af) ==
    IF c.snap
    THEN [c EXCEPT !.snap_enabled_face_sets.keys = @ \cup {c.initial_face_sets[af]}]
    ELSE c

MoveBuilt(target_expand_vertex, af, comp, built) ==
    /\ boundary_queries' = built.queried
    /\ null_deref' = built.null_deref
    /\ IF built.null_deref
       THEN /\ session' = "Crashed"
            /\ expand_cache' = comp.cache
            /\ move_mask' = <<>>
            /\ UNCHANGED <<falloff_factor, max_falloff_factor, mask, face_sets>>
       ELSE MoveStore(built,
                      sculpt_expand_update_for_vertex(
                          mesh, MoveSnapped(built.cache, af), built.falloff_factor,
                          built.max_falloff_factor, mask, face_sets,
                          target_expand_vertex))

\* With move on, the origin follows the pointer and the field is rebuilt.
MoveComponents(p, av, af, comp) ==
    /\ active_vertex' = av
    /\ active_face_index' = af
    /\ initial_active_vertex' = comp.initial_active_vertex
    /\ pointer' = p
    /\ MoveBuilt(sculpt_expand_target_vertex_update_and_get(mesh, p), af, comp,
                 IF expand_cache.move
                 THEN ExpandFalloffCreate(mesh, comp.cache, comp.initial_active_vertex,
                                          symm, nearest_fail, falloff_factor_type)
                 ELSE [null_deref |-> FALSE, queried |-> boundary_queries,
                       falloff_factor |-> falloff_factor,
                       max_falloff_factor |-> max_falloff_factor,
                       cache |-> comp.cache])

MovePick(p, new_mouse, av, af) ==
    MoveComponents(p, av, af,
        IF expand_cache.move
        THEN sculpt_expand_set_initial_components_for_mouse(
                 mesh, expand_cache, face_sets, new_mouse, av, af)
        ELSE [cache |-> expand_cache, initial_active_vertex |-> initial_active_vertex])

MoveOrigin(p, new_mouse, av1, af1) ==
    MovePick(p, new_mouse,
             IF expand_cache.move THEN ActiveVertexAfter(mesh, new_mouse, av1) ELSE av1,
             IF expand_cache.move THEN ActiveFaceAfter(mesh, new_mouse, af1) ELSE af1)

\* A pointer move in sculpt_expand_modal.
ModalMouseMove ==
    /\ session = "Active"
    /\ nevents < MaxEvents
    /\ \E p \in PointerPositions :
        MoveOrigin(p,
                   (p - expand_cache.initial_mouse_move) + expand_cache.original_mouse_move,
                   ActiveVertexAfter(mesh, p, active_vertex),
                   ActiveFaceAfter(mesh, p, active_face_index))
    /\ nevents' = nevents + 1
    /\ last_event' = "MOUSEMOVE"
    /\ modal_ret' = OPERATOR_RUNNING_MODAL
    /\ UNCHANGED <<falloff_factor_type, undo_open, start_mask, start_face_sets,
                   confirm_pointer>>
    /\ ExpandFrame

\* sculpt_expand_cancel, the operator's cancel callback: the window manager
\* calls it when it ends a running operator.
OperatorCancel ==
    /\ session = "Active"
    /\ session' = "Cancelled"
    /\ expand_cache' = [expand_cache EXCEPT !.freed = TRUE]
    /\ last_event' = "OP_CANCEL"
    /\ UNCHANGED <<fieldVars, ssVars, modal_ret, undo_open, nevents, historyVars>>
    /\ ExpandFrame

ExpandNext ==
    \/ ExpandInvoke
    \/ ModalMouseMove
    \/ ModalInvert
    \/ ModalPreserveToggle
    \/ ModalGradientToggle
    \/ ModalSnapToggle
    \/ ModalMoveToggle
    \/ ModalRecursionStep
    \/ ModalFalloff
    \/ ModalCancel
    \/ ModalConfirm
    \/ OperatorCancel

SpecExpand == ExpandInit /\ [][ExpandNext]_vars

(* ------------------------------------------------------------------ *)
(* Claims on the expand session                                       *)
(* ------------------------------------------------------------------ *)

\* The channel the session targets, and its value before the invoke.
TargetChannel ==
    IF expand_cache.target = SCULPT_EXPAND_TARGET_MASK THEN mask ELSE face_sets

TargetSnapshot ==
    IF expand_cache.target = SCULPT_EXPAND_TARGET_MASK THEN start_mask ELSE start_face_sets

\* C1: after a cancel of the session, by the modal map's cancel event or by
\* the operator's cancel callback, the target channel equals the snapshot
\* taken at the start of the session, element for element.
C1_CancelRestoresSnapshot ==
    last_event \in {"CANCEL", "OP_CANCEL"} => TargetChannel = TargetSnapshot

\* C2: a confirm event ends the session as confirmed, and a cancel event of
\* the modal map ends it as cancelled and never returns running modal.
C2_TerminalStates ==
    /\ last_event = "CONFIRM" =>
           session = "Confirmed" /\ modal_ret = OPERATOR_FINISHED
    /\ last_event = "CANCEL" =>
           session = "Cancelled" /\ modal_ret # OPERATOR_RUNNING_MODAL

\* C3: when the confirm comes at the position of the pointer move that
\* preceded it, the mask after the confirm is the mask that move's update left.
C3_ConfirmKeepsLastMove ==
    (session = "Confirmed" /\ move_mask # <<>> /\ confirm_pointer = pointer)
        => mask = move_mask

\* A confirmed mask session whose last event was a move over a vertex, after
\* another event, with a mask that is not the one before the session.
C3_Witness ==
    /\ session = "Confirmed"
    /\ move_mask # <<>>
    /\ confirm_pointer = pointer
    /\ pointer \in Verts(mesh)
    /\ nevents = 2
    /\ expand_cache.target = SCULPT_EXPAND_TARGET_MASK
    /\ mask # start_mask

(* ------------------------------------------------------------------ *)
(* The fill tool: the image and the passes over it                    *)
(*                                                                    *)
(* A pixel is its four floats <<r, g, b, a>>.  An image is a record of *)
(* its sizes x and y and of rect_float, the pixels by linear index.   *)
(* Every operator that touches pixels returns, next to its result,    *)
(* oob: the linear indices it used outside 0 .. x*y - 1.  A read or a  *)
(* write outside the image is undefined: the operator stops there.    *)
(* ------------------------------------------------------------------ *)

LEAK_HORZ == 0
LEAK_VERT == 1
NEIGHBOR_COUNT == 8

COL_RED == <<1, 0, 0, 1>>
COL_GREEN == <<0, 1, 0, 1>>
COL_BLUE == <<0, 0, 1, 1>>
COL_CLEAR == <<0, 0, 0, 0>>

InRange(im, idx) == 0 <= idx /\ idx < im.x * im.y

\* The indices of a loop from lo to hi that fall outside the image.
RangeOob(im, lo, hi) == {i \in lo..hi : ~InRange(im, i)}

get_pixel(im, idx) == im.rect_float[idx]

set_pixel(im, idx, col) == [im EXCEPT !.rect_float[idx] = col]

\* The loops of is_leak_narrow towards larger indices: pts are the pixels in
\* the order they are looked at, edge the last index that is not past the edge.
\* t is the flag the loop leaves.
RECURSIVE LeakLoopUp(_, _, _, _)
LeakLoopUp(im, pts, i, edge) ==
    IF i > Len(pts) THEN [t |-> FALSE, oob |-> {}]
    ELSE IF ~(pts[i] <= edge) THEN [t |-> TRUE, oob |-> {}]
    ELSE IF ~InRange(im, pts[i]) THEN [t |-> FALSE, oob |-> {pts[i]}]
    ELSE IF get_pixel(im, pts[i])[1] = 1 THEN [t |-> TRUE, oob |-> {}]
    ELSE LeakLoopUp(im, pts, i + 1, edge)

\* The loops towards smaller indices.
RECURSIVE LeakLoopDown(_, _, _, _)
LeakLoopDown(im, pts, i, edge) ==
    IF i > Len(pts) THEN [t |-> FALSE, oob |-> {}]
    ELSE IF ~(pts[i] >= edge) THEN [t |-> TRUE, oob |-> {}]
    ELSE IF ~InRange(im, pts[i]) THEN [t |-> FALSE, oob |-> {pts[i]}]
    ELSE IF get_pixel(im, pts[i])[1] = 1 THEN [t |-> TRUE, oob |-> {}]
    ELSE LeakLoopDown(im, pts, i + 1, edge)

MutLeakNever(im, maxpixel, limit, index, type) == [ret |-> FALSE, oob |-> {}]

\* is_leak_narrow: ret is the value returned.
is_leak_narrow(im, maxpixel, limit, index, type) ==
    LET lowpix == (index \div im.x) * im.x
        higpix == lowpix + im.x - 1
        t_a == IF type = LEAK_HORZ
               THEN LeakLoopUp(im, [i \in 1..limit |-> index + (im.x * i)], 1, maxpixel)
               ELSE LeakLoopDown(im, [i \in 1..limit |-> index - (limit - (i - 1))], 1, lowpix)
        t_b == IF type = LEAK_HORZ
               THEN LeakLoopDown(im, [i \in 1..limit |-> index - (im.x * i)], 1, 0)
               ELSE LeakLoopUp(im, [i \in 1..limit |-> index + (limit - (i - 1))], 1, higpix)
    IN  [ret |-> t_a.t /\ t_b.t, oob |-> t_a.oob \cup t_b.oob]

\* The seed: the first blue pixel below maxpixel, -1 when there is none.
SeedIndex(im, maxpixel) ==
    LET blue == {i \in 0..(maxpixel - 1) : InRange(im, i) /\ get_pixel(im, i)[3] = 1}
    IN  IF blue = {} THEN -1 ELSE SetMin(blue)

\* The entries of the stack that a pop acts on: the pixel is out of the image,
\* or neither red nor green. A pop of any other entry changes nothing.
StackLive(im, stk) ==
    {k \in 1..Len(stk) : \/ ~InRange(im, stk[k])
                         \/ get_pixel(im, stk[k])[1] # 1 /\ get_pixel(im, stk[k])[2] # 1}

\* The loop of gpencil_boundaryfill_area; stk is the stack, its top first. The
\* pops down to the first entry that is acted on are taken in one step.
RECURSIVE BoundaryFillLoop(_, _, _, _)
RECURSIVE BoundaryFillPop(_, _, _, _, _)
RECURSIVE BoundaryFillPush(_, _, _, _, _)
BoundaryFillLoop(im, limit, stk, oob) ==
    IF oob # {} \/ StackLive(im, stk) = {} THEN [ibuf |-> im, oob |-> oob]
    ELSE BoundaryFillPop(im, limit, stk, oob, SetMin(StackLive(im, stk)))

\* The pop of the entry k of the stack: the pixel is filled with green.
BoundaryFillPop(im, limit, stk, oob, k) ==
    IF ~InRange(im, stk[k]) THEN [ibuf |-> im, oob |-> oob \cup {stk[k]}]
    ELSE BoundaryFillPush(set_pixel(im, stk[k], COL_GREEN), limit, stk[k],
                          SubSeq(stk, k + 1, Len(stk)), oob)

\* The contact pixels of v, pushed left, right, top, bottom.
BoundaryFillPush(im, limit, v, stk, oob) ==
    LET maxpixel == (im.x * im.y) - 1
        horz == IF v - 1 >= 0 \/ v + 1 <= maxpixel
                THEN is_leak_narrow(im, maxpixel, limit, v, LEAK_HORZ)
                ELSE [ret |-> TRUE, oob |-> {}]
        vert == IF v + im.x <= maxpixel \/ v - im.x >= 0
                THEN is_leak_narrow(im, maxpixel, limit, v, LEAK_VERT)
                ELSE [ret |-> TRUE, oob |-> {}]
        left == IF v - 1 >= 0 /\ ~horz.ret THEN <<v - 1>> ELSE <<>>
        right == IF v + 1 <= maxpixel /\ ~horz.ret THEN <<v + 1>> ELSE <<>>
        top == IF v + im.x <= maxpixel /\ ~vert.ret THEN <<v + im.x>> ELSE <<>>
        bottom == IF v - im.x >= 0 /\ ~vert.ret THEN <<v - im.x>> ELSE <<>>
    IN  BoundaryFillLoop(im, limit, bottom \o top \o right \o left \o stk,
                         oob \cup horz.oob \cup vert.oob)

\* A fill that sets the seed and its four contact pixels green without the
\* test of their colour.
MutFillOverRed(im, limit) ==
    LET index == SeedIndex(im, (im.x * im.y) - 1)
        contact == {index, index - 1, index + 1, index + im.x, index - im.x}
    IN  [ibuf |-> IF index >= 0
                  THEN [im EXCEPT !.rect_float =
                           [i \in DOMAIN @ |-> IF i \in contact THEN COL_GREEN ELSE @[i]]]
                  ELSE im,
         oob |-> {}]

\* A fill that stops at the seed: its contact pixels are not pushed.
MutFillSeedOnly(im, limit) ==
    LET index == SeedIndex(im, (im.x * im.y) - 1)
    IN  [ibuf |-> IF index >= 0 THEN set_pixel(im, index, COL_GREEN) ELSE im, oob |-> {}]

gpencil_boundaryfill_area(im, limit) ==
    LET maxpixel == (im.x * im.y) - 1
        index == SeedIndex(im, maxpixel)
    IN  BoundaryFillLoop(im, limit,
                         IF index >= 0 /\ index <= maxpixel THEN <<index>> ELSE <<>>,
                         RangeOob(im, 0, IF index >= 0 THEN index ELSE maxpixel - 1))

\* The pixels gpencil_set_borders writes.
BorderIndices(im) ==
    {idx : idx \in 0..(im.x - 1)}
        \cup {idx + (im.x * (im.y - 1)) : idx \in 0..(im.x - 1)}
        \cup {im.x * idx : idx \in 0..(im.y - 1)}
        \cup {(im.x * idx) + (im.x - 1) : idx \in 0..(im.y - 1)}

\* Borders that take the flag by its name: clear when transparent is set.
MutBordersByName(im, transparent) ==
    [ibuf |-> [im EXCEPT !.rect_float =
                  [i \in DOMAIN @ |-> IF i \in BorderIndices(im)
                                      THEN IF transparent THEN COL_CLEAR ELSE COL_RED
                                      ELSE @[i]]],
     oob |-> {}]

MutBordersStay(im, transparent) ==
    [ibuf |-> IF transparent
              THEN [im EXCEPT !.rect_float =
                       [i \in DOMAIN @ |-> IF i \in BorderIndices(im) THEN COL_RED ELSE @[i]]]
              ELSE im,
     oob |-> {}]

\* gpencil_set_borders: red when transparent is set, clear otherwise.
gpencil_set_borders(im, transparent) ==
    [ibuf |-> [im EXCEPT !.rect_float =
                  [i \in DOMAIN @ |-> IF i \in BorderIndices(im)
                                      THEN IF transparent THEN COL_RED ELSE COL_CLEAR
                                      ELSE @[i]]],
     oob |-> {i \in BorderIndices(im) : ~InRange(im, i)}]

MutInvertDropsGreen(color) ==
    IF color[1] = 1 THEN COL_GREEN ELSE COL_CLEAR

\* The colour gpencil_invert_image gives a pixel of this colour.
InvertColor(color) ==
    IF color[2] = 1 THEN COL_RED
    ELSE IF color[1] = 1 THEN COL_GREEN
    ELSE COL_CLEAR

\* gpencil_invert_image: v runs from maxpixel down to 1.
gpencil_invert_image(im) ==
    [ibuf |-> [im EXCEPT !.rect_float =
                  [v \in DOMAIN @ |-> IF v \in 1..((im.x * im.y) - 1)
                                      THEN InvertColor(@[v]) ELSE @[v]]],
     oob |-> RangeOob(im, 1, (im.x * im.y) - 1)]

\* The first loop of gpencil_erase_processed_area: the points are set blue.
RECURSIVE ErasePerimeter(_, _, _)
ErasePerimeter(im, points, i) ==
    IF i > Len(points) THEN [ibuf |-> im, oob |-> {}]
    ELSE IF ~InRange(im, (im.x * points[i][2]) + points[i][1])
    THEN [ibuf |-> im, oob |-> {(im.x * points[i][2]) + points[i][1]}]
    ELSE ErasePerimeter(set_pixel(im, (im.x * points[i][2]) + points[i][1], COL_BLUE),
                        points, i + 1)

\* The flag clear after the pixel idx of the row idy: set by the last blue
\* pixel of the row up to idx, reset by the last red one.
EraseClear(im, idy, idx) ==
    LET marks == {k \in 0..idx : \/ get_pixel(im, (im.x * idy) + k)[3] = 1
                                 \/ get_pixel(im, (im.x * idy) + k)[1] = 1}
    IN  marks # {} /\ get_pixel(im, (im.x * idy) + SetMax(marks))[3] = 1

\* The second loop: by rows, every pixel from a blue one up to the next red
\* one takes clear_col, which is red.
EraseLines(im) ==
    [im EXCEPT !.rect_float =
        [i \in DOMAIN @ |-> IF EraseClear(im, i \div im.x, i % im.x)
                            THEN COL_RED ELSE @[i]]]

\* gpencil_erase_processed_area; points is the buffer, used its size.
gpencil_erase_processed_area(im, points, used) ==
    IF used = 0 THEN [ibuf |-> im, oob |-> {}]
    ELSE IF ErasePerimeter(im, points, 1).oob # {} THEN ErasePerimeter(im, points, 1)
    ELSE [ibuf |-> EraseLines(ErasePerimeter(im, points, 1).ibuf), oob |-> {}]

\* The pixel at index when it is red and guard holds, 0 otherwise: what
\* dilate_shape keeps in lt, rt, tp and bm.
DilateSide(im, guard, index) ==
    IF guard /\ get_pixel(im, index)[1] = 1 THEN index ELSE 0

\* The pixels dilate_shape reads at the corners of v without a test of the
\* index: next to tp and bm, on the sides where lt and rt were found.
DilateCorners(lt, rt, tp, bm) ==
    (IF tp # 0 /\ lt # 0 THEN {tp - 1} ELSE {})
        \cup (IF tp # 0 /\ rt # 0 THEN {tp + 1} ELSE {})
        \cup (IF bm # 0 /\ lt # 0 THEN {bm - 1} ELSE {})
        \cup (IF bm # 0 /\ rt # 0 THEN {bm + 1} ELSE {})

\* What the green pixel v adds to the stack of dilate_shape.
DilateAt(im, v) ==
    LET maxpixel == (im.x * im.y) - 1
        lt == DilateSide(im, v - 1 >= 0, v - 1)
        rt == DilateSide(im, v + 1 <= maxpixel, v + 1)
        tp == DilateSide(im, v + im.x <= maxpixel, v + im.x)
        bm == DilateSide(im, v - im.x >= 0, v - im.x)
        sides == {i \in {v - 1, v + 1, v + im.x, v - im.x} :
                     InRange(im, i) /\ get_pixel(im, i)[1] = 1}
        corners == DilateCorners(lt, rt, tp, bm)
    IN  [push |-> sides \cup {i \in corners : InRange(im, i) /\ get_pixel(im, i)[1] = 1},
         oob |-> {i \in corners : ~InRange(im, i)}]

\* A dilate without the test of the neighbours: every red pixel is set green.
MutDilateEveryRed(im) ==
    [ibuf |-> [im EXCEPT !.rect_float =
                  [i \in DOMAIN @ |-> IF @[i][1] = 1 THEN COL_GREEN ELSE @[i]]],
     oob |-> {}]

\* dilate_shape: v runs from maxpixel down to 1, then the stack is set green.
dilate_shape(im) ==
    LET green == {v \in 1..((im.x * im.y) - 1) : get_pixel(im, v)[2] = 1}
        push == UNION {DilateAt(im, v).push : v \in green}
        oob == UNION {DilateAt(im, v).oob : v \in green}
    IN  IF oob # {} THEN [ibuf |-> im, oob |-> oob]
        ELSE [ibuf |-> [im EXCEPT !.rect_float =
                           [i \in DOMAIN @ |-> IF i \in push THEN COL_GREEN ELSE @[i]]],
              oob |-> {}]

\* offset[8][2] of gpencil_get_outline_points.
offset ==
    <<<<-1, -1>>, <<0, -1>>, <<1, -1>>, <<1, 0>>, <<1, 1>>, <<0, 1>>, <<-1, 1>>, <<-1, 0>>>>

\* The index of the backtracked offset in the table, -1 when it is not there.
BackOffsetIndex(backtracked_offset) ==
    IF \E i \in 0..(NEIGHBOR_COUNT - 1) : offset[i + 1] = backtracked_offset
    THEN CHOOSE i \in 0..(NEIGHBOR_COUNT - 1) : offset[i + 1] = backtracked_offset
    ELSE -1

\* The inner loop: the neighbours of boundary_co after the backtracked one, at
\* most NEIGHBOR_COUNT - 1 of them, up to the first green one.
RECURSIVE OutlineCheck(_, _, _, _, _)
OutlineCheck(im, boundary_co, prev_check_co, cur_back_offset, loop) ==
    IF ~(loop < NEIGHBOR_COUNT - 1 /\ cur_back_offset # -1)
    THEN [found |-> FALSE, oob |-> {}]
    ELSE LET offset_idx == (cur_back_offset + 1) % NEIGHBOR_COUNT
             current_check_co == <<boundary_co[1] + offset[offset_idx + 1][1],
                                   boundary_co[2] + offset[offset_idx + 1][2]>>
             image_idx == (im.x * current_check_co[2]) + current_check_co[1]
         IN  IF ~InRange(im, image_idx) THEN [found |-> FALSE, oob |-> {image_idx}]
             ELSE IF get_pixel(im, image_idx)[2] = 1
             THEN [found |-> TRUE, oob |-> {}, boundary_co |-> current_check_co,
                   backtracked_co |-> prev_check_co]
             ELSE OutlineCheck(im, boundary_co, current_check_co, cur_back_offset + 1,
                               loop + 1)

\* The pop that takes the start pixel from the top of the stack again.
OutlinePop(stk) == SubSeq(stk, 1, Len(stk) - 1)

\* The outer loop; stk is the stack, its top last.  A round that finds no
\* green neighbour away from the start repeats without end, and so does a round
\* that comes back to a pixel with the offset and the pixel it came with: hang.
RECURSIVE OutlineLoop(_, _, _, _, _, _, _)
OutlineLoop(im, start_co, boundary_co, backtracked_offset, prev_check_co, stk, seen) ==
    LET next == OutlineCheck(im, boundary_co, prev_check_co,
                             BackOffsetIndex(backtracked_offset), 0)
    IN  IF next.oob # {} THEN [stack |-> stk, oob |-> next.oob, hang |-> FALSE]
        ELSE IF ~next.found
        THEN IF boundary_co = start_co
             THEN [stack |-> OutlinePop(stk), oob |-> {}, hang |-> FALSE]
             ELSE [stack |-> stk, oob |-> {}, hang |-> TRUE]
        ELSE IF next.boundary_co = start_co
        THEN [stack |-> OutlinePop(Append(stk, next.boundary_co)), oob |-> {},
              hang |-> FALSE]
        ELSE IF <<next.boundary_co, next.backtracked_co>> \in seen
        THEN [stack |-> stk, oob |-> {}, hang |-> TRUE]
        ELSE OutlineLoop(im, start_co, next.boundary_co,
                         <<next.backtracked_co[1] - next.boundary_co[1],
                           next.backtracked_co[2] - next.boundary_co[2]>>,
                         next.backtracked_co, Append(stk, next.boundary_co),
                         seen \cup {<<next.boundary_co, next.backtracked_co>>})

\* The analysis of gpencil_get_outline_points from the pixel idx it starts at.
OutlineFrom(im, idx) ==
    OutlineLoop(im, <<idx % im.x, idx \div im.x>>, <<idx % im.x, idx \div im.x>>,
                <<((idx - 1) % im.x) - (idx % im.x),
                  ((idx - 1) \div im.x) - (idx \div im.x)>>,
                <<idx % im.x, idx \div im.x>>,
                <<<<idx % im.x, idx \div im.x>>>>, {})

\* The search for the start: the green pixel of the largest index above 0.
OutlineStart(im) ==
    LET green == {idx \in 1..((im.x * im.y) - 1) : get_pixel(im, idx)[2] = 1}
    IN  IF green = {} THEN [ibuf |-> im, stack |-> <<>>, oob |-> {}, hang |-> FALSE]
        ELSE [ibuf |-> im] @@ OutlineFrom(im, SetMax(green))

\* gpencil_get_outline_points: the image after the dilate and the stack.
gpencil_get_outline_points(im, dilate) ==
    IF dilate /\ dilate_shape(im).oob # {}
    THEN [ibuf |-> im, stack |-> <<>>, oob |-> dilate_shape(im).oob, hang |-> FALSE]
    ELSE OutlineStart(IF dilate THEN dilate_shape(im).ibuf ELSE im)

(* ------------------------------------------------------------------ *)
(* The fill pass, stage by stage (gpencil_do_frame_fill)              *)
(* ------------------------------------------------------------------ *)

\* Coordinates are <<x, y>>; the pixel of a coordinate has index x + w * y.
Coords(w, h) == {<<x, y>> : x \in 0..(w - 1), y \in 0..(h - 1)}

Interior(w, h) == {<<x, y>> : x \in 1..(w - 2), y \in 1..(h - 2)}

\* An image of w by h pixels with these coordinates red, green and blue; blue
\* is drawn last, red first.
Image(w, h, red, green, blue) ==
    [x |-> w, y |-> h,
     rect_float |-> [i \in 0..((w * h) - 1) |->
                        IF <<i % w, i \div w>> \in blue THEN COL_BLUE
                        ELSE IF <<i % w, i \div w>> \in green THEN COL_GREEN
                        ELSE IF <<i % w, i \div w>> \in red THEN COL_RED
                        ELSE COL_CLEAR]]

\* The fill variables before the stage step of a pass over the image im.
FillStart(im, limit, inverted, step, points) ==
    /\ DrawIdle
    /\ OpFillIdle
    /\ ibuf = im
    /\ rendered = im.rect_float
    /\ fill_leak = limit
    /\ is_inverted = inverted
    /\ fill_step = step
    /\ stack = <<>>
    /\ totpoints = points
    /\ sbuffer_used = 0
    /\ oob_access = {}
    /\ inversions = 0

\* The variables of the sculpt tools while the fill tool runs.
SculptIdle ==
    /\ SessionIdle
    /\ mesh = Rhombus
    /\ symm = 0
    /\ nearest_fail = {}
    /\ boundary_none = "NULL"
    /\ initial_active_vertex = SCULPT_EXPAND_VERTEX_NONE
    /\ falloff_factor = <<>>
    /\ max_falloff_factor = F(0)
    /\ falloff_factor_type = "NONE"
    /\ edge_sensitivity = 0
    /\ null_deref = FALSE
    /\ boundary_queries = <<>>

\* A stage stores its image; an index outside the image ends the pass in a
\* state of which nothing is known.
FillStore(step, res) ==
    /\ ibuf' = res.ibuf
    /\ oob_access' = oob_access \cup res.oob
    /\ fill_step' = IF res.oob # {} THEN "Undefined" ELSE step
    /\ UNCHANGED <<expandVars, gpVars, rendered, wall, fill_leak, is_inverted>>

\* gpencil_set_borders(tgpf, true): the red limit around the image.
FillSetBorders ==
    /\ fill_step = "Rendered"
    /\ FillStore("Bordered", gpencil_set_borders(ibuf, TRUE))
    /\ UNCHANGED <<stack, totpoints, sbuffer_used, inversions>>

FillBoundaryfill ==
    /\ fill_step = "Bordered"
    /\ FillStore("Filled", gpencil_boundaryfill_area(ibuf, fill_leak))
    /\ UNCHANGED <<stack, totpoints, sbuffer_used, inversions>>

FillInvert ==
    /\ fill_step = "Filled"
    /\ is_inverted
    /\ FillStore("Inverted", gpencil_invert_image(ibuf))
    /\ inversions' = inversions + 1
    /\ UNCHANGED <<stack, totpoints, sbuffer_used>>

\* gpencil_set_borders(tgpf, false): the limit is cleared before the outline.
FillCleanBorders ==
    /\ fill_step = "Inverted" \/ (fill_step = "Filled" /\ ~is_inverted)
    /\ FillStore("Cleaned", gpencil_set_borders(ibuf, FALSE))
    /\ UNCHANGED <<stack, totpoints, sbuffer_used, inversions>>

\* The conversion (short)n of an int: the value modulo 2^16 in the range of a
\* signed integer of 16 bits.
CastShort(n) ==
    LET m == n % 65536
    IN  IF m >= 32768 THEN m - 65536 ELSE m

\* gpencil_points_from_stack on a stack of count points: the count stored in
\* sbuffer_used, the number of points popped into the buffer and the value
\* returned. An empty stack returns before the count is stored.
gpencil_points_from_stack(used, count) ==
    IF count = 0 THEN [sbuffer_used |-> used, popped |-> 0, ret |-> 0]
    ELSE [sbuffer_used |-> CastShort(count), popped |-> count, ret |-> count]

\* gpencil_get_outline_points and gpencil_points_from_stack.
OutlineStore(res) ==
    /\ ibuf' = res.ibuf
    /\ oob_access' = oob_access \cup res.oob
    /\ stack' = res.stack
    /\ totpoints' = Len(res.stack)
    /\ sbuffer_used' = gpencil_points_from_stack(sbuffer_used, Len(res.stack)).sbuffer_used
    /\ fill_step' = IF res.oob # {} THEN "Undefined"
                    ELSE IF res.hang THEN "Hung" ELSE "Traced"

FillOutline ==
    /\ fill_step = "Cleaned"
    /\ totpoints > 0
    /\ OutlineStore(gpencil_get_outline_points(ibuf, totpoints = 1))
    /\ UNCHANGED <<expandVars, gpVars, rendered, wall, fill_leak, is_inverted, inversions>>

\* An end of round that leaves the loop whatever the fill and the outline.
MutEraseLeaves ==
    /\ fill_step = "Traced"
    /\ totpoints' = 0
    /\ fill_step' = "Done"
    /\ UNCHANGED <<expandVars, gpVars, rendered, wall, fill_leak, is_inverted, ibuf,
                   oob_access, stack, sbuffer_used, inversions>>

\* The end of a round of the loop: the processed area is erased when the fill
\* is inverted, and the loop ends when it is not or no point was found.
FillErase ==
    /\ fill_step = "Traced"
    /\ IF is_inverted
       THEN /\ FillStore(IF totpoints > 0 THEN "Cleaned" ELSE "Done",
                         gpencil_erase_processed_area(ibuf, stack, sbuffer_used))
            /\ UNCHANGED totpoints
       ELSE /\ totpoints' = 0
            /\ fill_step' = "Done"
            /\ UNCHANGED <<expandVars, gpVars, rendered, wall, fill_leak, is_inverted, ibuf,
                           oob_access>>
    /\ UNCHANGED <<stack, sbuffer_used, inversions>>

\* gpencil_invert_image on an image of its own.
InvertImage ==
    /\ fill_step = "Image"
    /\ inversions < 2
    /\ FillStore("Image", gpencil_invert_image(ibuf))
    /\ inversions' = inversions + 1
    /\ UNCHANGED <<stack, totpoints, sbuffer_used>>

(* ------------------------------------------------------------------ *)
(* The leak test across a wall with a gap of two pixels               *)
(* ------------------------------------------------------------------ *)

\* The side of the square images with a wall.
LeakSize == 7

\* The largest leak size of the brush that is drawn.
MaxLeak == 3

\* The pixels of a wall: a line at column (or row) at, the full length of the
\* image, open at gap and gap + 1.
WallPixels(orient, at, gap) ==
    {IF orient = "V" THEN <<at, t>> ELSE <<t, at>> :
        t \in (0..(LeakSize - 1)) \ {gap, gap + 1}}

\* The coordinate of a pixel across the wall.
Across(orient, co) == IF orient = "V" THEN co[1] ELSE co[2]

LeakInit ==
    /\ SculptIdle
    /\ \E orient \in {"V", "H"}, at \in 2..(LeakSize - 3), gap \in 1..(LeakSize - 3),
          seed \in Interior(LeakSize, LeakSize), limit \in {0} \cup (2..MaxLeak) :
          /\ Across(orient, seed) # at
          /\ wall = [orient |-> orient, at |-> at, gap |-> gap, seed |-> seed]
          /\ FillStart(Image(LeakSize, LeakSize, WallPixels(orient, at, gap), {}, {seed}),
                       limit, FALSE, "Rendered", 1)

LeakNext == FillSetBorders \/ FillBoundaryfill

SpecLeak == LeakInit /\ [][LeakNext]_vars

\* The pixels that the fill painted on the side of the wall away from the seed.
FarSideFilled ==
    {co \in Coords(ibuf.x, ibuf.y) :
        /\ (Across(wall.orient, co) < wall.at) # (Across(wall.orient, wall.seed) < wall.at)
        /\ Across(wall.orient, co) # wall.at
        /\ get_pixel(ibuf, co[1] + (ibuf.x * co[2]))[2] = 1}

\* The pixels of the gap that the fill painted.
GapFilled ==
    {co \in Coords(ibuf.x, ibuf.y) :
        /\ Across(wall.orient, co) = wall.at
        /\ get_pixel(ibuf, co[1] + (ibuf.x * co[2]))[2] = 1}

\* C7: across a wall with a gap of 2 pixels, a fill with a leak size of 2 or
\* more paints no pixel on the far side, and a fill with a leak size of 0
\* paints the far side.
C7_LeakSuppression ==
    fill_step = "Filled" =>
        /\ fill_leak >= 2 => FarSideFilled = {}
        /\ fill_leak = 0 => FarSideFilled # {}

C7_Witness ==
    /\ fill_step = "Filled"
    /\ fill_leak >= 2
    /\ get_pixel(ibuf, wall.seed[1] + (ibuf.x * wall.seed[2]))[2] = 1
    /\ GapFilled # {}
    /\ FarSideFilled = {}

(* ------------------------------------------------------------------ *)
(* The inversion of an image, twice                                   *)
(* ------------------------------------------------------------------ *)

\* The width of the inverted images; they have two rows.
InvertWidth == 3

\* The colours the fill tool draws.
FillColours == {COL_CLEAR, COL_RED, COL_GREEN, COL_BLUE}

InvertInit ==
    /\ SculptIdle
    /\ wall = <<>>
    /\ \E rect \in [0..((InvertWidth * 2) - 1) -> FillColours] :
          FillStart([x |-> InvertWidth, y |-> 2, rect_float |-> rect], 0, TRUE, "Image", 0)

InvertNext == InvertImage

SpecInvert == InvertInit /\ [][InvertNext]_vars

\* What the fill makes of a pixel: filled when green, boundary when red,
\* background otherwise. The tests are those of gpencil_invert_image.
PixelClass(color) ==
    IF color[2] = 1 THEN "filled"
    ELSE IF color[1] = 1 THEN "boundary"
    ELSE "background"

\* C8: after two inversions every pixel has the class it had at first: a
\* green pixel is green, a red pixel is red, any other pixel is background.
C8_InvertTwice ==
    inversions = 2 =>
        \A i \in DOMAIN rendered :
            PixelClass(get_pixel(ibuf, i)) = PixelClass(rendered[i])

C8_Witness ==
    /\ inversions = 2
    /\ \E i, j, k \in DOMAIN rendered \ {0} :
          /\ rendered[i] = COL_GREEN /\ get_pixel(ibuf, i) = COL_GREEN
          /\ rendered[j] = COL_RED /\ get_pixel(ibuf, j) = COL_RED
          /\ rendered[k] = COL_BLUE /\ get_pixel(ibuf, k) = COL_CLEAR

(* ------------------------------------------------------------------ *)
(* The outline of a filled blob                                       *)
(* ------------------------------------------------------------------ *)

\* The size of the images with a blob.
TraceWidth == 6

TraceHeight == 5

\* Two pixels that share a side.
Adjacent4(p, q) ==
    \/ p[1] = q[1] /\ (p[2] - q[2]) \in {-1, 1}
    \/ p[2] = q[2] /\ (p[1] - q[1]) \in {-1, 1}

\* Two different pixels that share a side or a corner.
Adjacent8(p, q) ==
    /\ p # q
    /\ (p[1] - q[1]) \in {-1, 0, 1}
    /\ (p[2] - q[2]) \in {-1, 0, 1}

\* The pixels of S joined to those of T through sides.
RECURSIVE Flood4(_, _)
Flood4(S, T) ==
    LET more == T \cup {p \in S : \E q \in T : Adjacent4(p, q)}
    IN  IF more = T THEN T ELSE Flood4(S, more)

Connected4(S) == S = {} \/ Flood4(S, {CHOOSE p \in S : TRUE}) = S

\* A blob without holes: one piece, and the pixels around it one piece.
HoleFree(w, h, blob) == Connected4(blob) /\ Connected4(Coords(w, h) \ blob)

\* The pixels inside the border that touch the blob: the boundary around it.
BlobRing(w, h, blob) ==
    {p \in Interior(w, h) \ blob : \E q \in blob : Adjacent8(p, q)}

\* The image when the outline is taken: a blob of two pixels or more inside
\* the cleared border, with or without a boundary around it, in the first
\* round of the loop (the shape is dilated) or in a later one.
TraceInit ==
    /\ SculptIdle
    /\ wall = <<>>
    /\ \E blob \in SUBSET Interior(TraceWidth, TraceHeight), ring \in BOOLEAN,
          round \in 1..2 :
          /\ Cardinality(blob) >= 2
          /\ HoleFree(TraceWidth, TraceHeight, blob)
          /\ FillStart(Image(TraceWidth, TraceHeight,
                             IF ring THEN BlobRing(TraceWidth, TraceHeight, blob) ELSE {},
                             blob, {}),
                       0, FALSE, "Cleaned", round)

TraceNext == FillOutline

SpecTrace == TraceInit /\ [][TraceNext]_vars

\* The polygon of the stack: every point is a green pixel, every point touches
\* the next one and the last one touches the first, and the first and the last
\* are different points.
OutlinePolygon(im, points) ==
    /\ points # <<>>
    /\ \A i \in 1..Len(points) :
          /\ InRange(im, points[i][1] + (im.x * points[i][2]))
          /\ points[i][1] \in 0..(im.x - 1)
          /\ get_pixel(im, points[i][1] + (im.x * points[i][2]))[2] = 1
          /\ Adjacent8(points[i], points[(i % Len(points)) + 1])
    /\ points[1] # points[Len(points)]

\* C9: the outline of a blob without holes is a polygon: every coordinate is
\* a filled pixel, every coordinate is 8-adjacent to the next one and the last
\* to the first, and the first and the last coordinates differ.
C9_TraceClosure ==
    fill_step = "Traced" => OutlinePolygon(ibuf, stack)

\* The outline, when it has a point, is such a polygon.
TraceClosureOfPoints ==
    fill_step = "Traced" /\ stack # <<>> => OutlinePolygon(ibuf, stack)

\* The outline comes back for every blob without holes.
TraceReturns == fill_step \notin {"Hung", "Undefined"}

(* ------------------------------------------------------------------ *)
(* The whole pass over a rendered image                               *)
(* ------------------------------------------------------------------ *)

\* The size of the rendered images.
FillWidth == 5

FillHeight == 5

\* The image after the render: strokes in red inside the view, the seed in
\* blue at the place of the click, anywhere in the view.
FillInit ==
    /\ SculptIdle
    /\ wall = <<>>
    /\ \E strokes \in SUBSET Interior(FillWidth, FillHeight),
          seed \in Coords(FillWidth, FillHeight), limit \in 0..MaxLeak,
          inverted \in BOOLEAN :
          FillStart(Image(FillWidth, FillHeight, strokes, {}, {seed}),
                    limit, inverted, "Rendered", 1)

FillNext ==
    \/ FillSetBorders
    \/ FillBoundaryfill
    \/ FillInvert
    \/ FillCleanBorders
    \/ FillOutline
    \/ FillErase

SpecFill == FillInit /\ [][FillNext]_vars

\* C10: every read and every write of a pixel in a pass, in the flood fill,
\* the leak test, the borders, the inversion, the dilate, the outline and the
\* erase, has its index in 0 .. width * height - 1.
C10_IndexInImage ==
    /\ oob_access = {}
    /\ fill_step # "Undefined"

C10_Witness ==
    /\ fill_step = "Done"
    /\ is_inverted
    /\ fill_leak > 0
    /\ inversions = 1
    /\ sbuffer_used > 0
    /\ \E i \in DOMAIN rendered : rendered[i] = COL_RED
    /\ oob_access = {}

(* ------------------------------------------------------------------ *)
(* Claims on the updates of the face set target                       *)
(* ------------------------------------------------------------------ *)

\* The state right after sculpt_expand_update_for_vertex: the invoke, a
\* pointer move or the confirm was the last handler to return.
AfterUpdate ==
    /\ session \in {"Active", "Confirmed"}
    /\ last_event \in {"NONE", "MOUSEMOVE", "CONFIRM"}

\* The face set ids of the session's snapshot: the ids before the invoke, or
\* what the erase of the active id made of them when the session modifies it.
FaceSetsSnapshot ==
    IF expand_cache.modify_active THEN expand_cache.initial_face_sets ELSE start_face_sets

\* A face is enabled when its value is within the active factor, or, with the
\* snap on, when its snapshot id is one of the enabled ids; invert negates.
FaceEnabled(f) ==
    LET enabled == IF expand_cache.snap_enabled_face_sets.null
                   THEN FLessEq(expand_cache.face_falloff_factor[f], expand_cache.active_factor)
                   ELSE FaceSetsSnapshot[f] \in expand_cache.snap_enabled_face_sets.keys
    IN  enabled # expand_cache.invert

\* The ids an update of the face set target leaves on the faces.
FaceSetsExpected ==
    [f \in Faces(mesh) |->
        IF ~FaceEnabled(f) THEN FaceSetsSnapshot[f]
        ELSE IF expand_cache.preserve
        THEN FaceSetsSnapshot[f] + expand_cache.next_face_set
        ELSE expand_cache.next_face_set]

\* C11: after every update of a session on the face sets, however many came
\* before, an enabled face has the id next_face_set (its snapshot id plus
\* next_face_set, added once, with preserve) and a disabled face its snapshot id.
C11_FaceSetsUpdate ==
    (AfterUpdate /\ expand_cache.target = SCULPT_EXPAND_TARGET_FACE_SETS)
        => face_sets = FaceSetsExpected

\* The same on the meshes whose snapshot fits the block allocated for it.
FaceSetsUpdateInBlock ==
    (AfterUpdate /\ expand_cache.target = SCULPT_EXPAND_TARGET_FACE_SETS
                 /\ mesh.totface <= mesh.totvert)
        => face_sets = FaceSetsExpected

\* An update that follows an update with nothing changed in between leaves
\* every face set id as it was.
FaceSetsUpdateRepeated ==
    [][(/\ AfterUpdate
        /\ AfterUpdate'
        /\ expand_cache.target = SCULPT_EXPAND_TARGET_FACE_SETS
        /\ [expand_cache EXCEPT !.freed = FALSE] = [expand_cache' EXCEPT !.freed = FALSE]
        /\ falloff_factor' = falloff_factor)
       => face_sets' = face_sets]_vars

\* ---------------------------------------------------------------------------
\* Claims on the erase of the active face set
\* ---------------------------------------------------------------------------

\* C12: the erase of the active face set from the snapshot, done by the invoke
\* when the operator modifies the active face set, terminates on every mesh
\* and every face set assignment: no invoke is left inside the loop.
C12_EraseTerminates == session # "Hung"

\* The erase, when it returns, has removed the id from every face but face 0,
\* which the inner loop never handles.
EraseReturned ==
    (session = "Active" /\ last_event = "NONE" /\ expand_cache.modify_active)
        => \A f \in Faces(mesh) \ {0} :
               expand_cache.initial_face_sets[f] # expand_cache.next_face_set

\* ---------------------------------------------------------------------------
\* Claims on the symmetry origins of the boundary and the spherical falloff
\* ---------------------------------------------------------------------------

\* The origin of a symmetry iteration reaches no boundary vertex of the mesh.
OriginWithoutBoundary(symm_it) ==
    LET v == SymmOrigin(mesh, initial_active_vertex, symm_it, nearest_fail)
    IN  \/ v = SCULPT_EXPAND_VERTEX_NONE
        \/ Reach(mesh, {v}, mesh.totvert) \cap BoundaryVerts(mesh) = {}

NoBoundaryFound ==
    \A symm_it \in 0..symm :
        SCULPT_is_symmetry_iteration_valid(symm_it, symm) => OriginWithoutBoundary(symm_it)

\* C13: a boundary falloff built when no symmetry origin has a boundary holds
\* 0 in every entry, not FLT_MAX.
C13_EmptyBoundaryZero ==
    (falloff_factor_type = "BOUNDARY_TOPOLOGY" /\ NoBoundaryFound)
        => \A v \in Verts(mesh) : FEq(falloff_factor[v], F(0))

C13_Witness ==
    /\ falloff_factor_type = "BOUNDARY_TOPOLOGY"
    /\ NoBoundaryFound
    /\ mesh.totvert > 1
    /\ symm > 0
    /\ \A v \in Verts(mesh) : FEq(falloff_factor[v], F(0))

\* Some valid symmetry iteration finds no vertex near the mirrored origin.
SomeOriginFailed ==
    \E i \in 1..symm :
        /\ SCULPT_is_symmetry_iteration_valid(i, symm)
        /\ SymmOrigin(mesh, initial_active_vertex, i, nearest_fail) = SCULPT_EXPAND_VERTEX_NONE

\* The spherical values when only the resolved origins contribute.
SphericalOfResolved ==
    [v \in Verts(mesh) |->
        F(SetMin({len_v3v3(mesh.co[o], mesh.co[v]) : o \in ResolvedOrigins}))]

\* The boundary values when only the resolved origins contribute: the hop
\* count over the iterated neighbours from the boundaries of the resolved
\* origins, FLT_MAX where no hop reaches, and 0 everywhere when these
\* boundaries have no vertex.
BoundaryOfResolved ==
    LET seeds == UNION {SeqRange(SCULPT_boundary_data_init(mesh, o, "EMPTY").vertices) :
                           o \in ResolvedOrigins}
        RECURSIVE Within(_)
        Within(h) ==
            IF h = 0 THEN seeds
            ELSE LET inner == Within(h - 1)
                 IN  inner \cup {u \in Verts(mesh) :
                                    \E w \in inner : \E k \in DOMAIN Neighbors(mesh, w) :
                                        Neighbors(mesh, w)[k].index = u}
    IN  [v \in Verts(mesh) |->
            IF seeds = {} THEN F(0)
            ELSE IF v \in Within(mesh.totvert)
            THEN F(SetMin({h \in 0..mesh.totvert : v \in Within(h)}))
            ELSE F_FLT_MAX]

\* A spherical build skips the iterations that resolve to no vertex.
SphericalFailedSkipped ==
    (falloff_factor_type = "SPHERICAL" /\ SomeOriginFailed)
        => falloff_factor = SphericalOfResolved

\* A boundary build that returns holds the values of the resolved origins.
BoundaryFailedValues ==
    (falloff_factor_type = "BOUNDARY_TOPOLOGY" /\ SomeOriginFailed)
        => falloff_factor = BoundaryOfResolved

\* C14: in a spherical or boundary build, a symmetry iteration that resolves
\* to no vertex contributes nothing: the boundary service is never queried
\* with the id of no vertex, and the values are those of the resolved origins.
C14_FailedOriginSkipped ==
    (falloff_factor_type \in {"SPHERICAL", "BOUNDARY_TOPOLOGY", "CRASHED"} /\ SomeOriginFailed)
        => /\ \A k \in DOMAIN boundary_queries :
                  boundary_queries[k] # SCULPT_EXPAND_VERTEX_NONE
           /\ falloff_factor_type = "SPHERICAL" => falloff_factor = SphericalOfResolved
           /\ falloff_factor_type = "BOUNDARY_TOPOLOGY" => falloff_factor = BoundaryOfResolved

\* ---------------------------------------------------------------------------
\* Claims on the cached maximum of the falloff field
\* ---------------------------------------------------------------------------

\* The largest entry of a field among those that are not FLT_MAX, -FLT_MAX
\* when every entry is FLT_MAX.
MaxOfFinite(ff) ==
    LET finite == {ff[i] : i \in {j \in DOMAIN ff : ~FEq(ff[j], F_FLT_MAX)}}
    IN  IF finite = {} THEN F(-FLT_MAX)
        ELSE CHOOSE e \in finite : \A o \in finite : FLessEq(o, e)

\* C15: whenever a session holds a field (after the build of the invoke, a
\* change of the falloff type, a rebuild for a moved origin, a recursion step),
\* max_falloff_factor is the largest entry that is not FLT_MAX, and -FLT_MAX
\* when there is no such entry.
C15_MaxOfFinite ==
    (session \in {"Active", "Confirmed", "Cancelled"})
        => max_falloff_factor = MaxOfFinite(falloff_factor)

\* A recursion step left a field with entries at FLT_MAX and a positive maximum.
C15_Witness ==
    /\ session = "Active"
    /\ last_event = "RECURSION_STEP"
    /\ \E v \in Verts(mesh) : FEq(falloff_factor[v], F_FLT_MAX)
    /\ FLess(F(0), max_falloff_factor)
    /\ max_falloff_factor = MaxOfFinite(falloff_factor)

\* A reachable state: a field without any entry below FLT_MAX, its maximum at
\* -FLT_MAX.
MaxOfNone ==
    /\ session = "Active"
    /\ \A v \in Verts(mesh) : FEq(falloff_factor[v], F_FLT_MAX)
    /\ max_falloff_factor = F(-FLT_MAX)

(* ------------------------------------------------------------------ *)
(* SpecDraw: the strokes drawn as the boundary of a fill              *)
(* ------------------------------------------------------------------ *)

\* The number of layers of the datablocks drawn.
NumLayers == 3

\* eGP_FillLayerModes and eGP_FillDrawModes.
FillLayerModes == {"VISIBLE", "ACTIVE", "ABOVE", "BELOW", "ALL_ABOVE", "ALL_BELOW"}

FillDrawModes == {"BOTH", "STROKE", "CONTROL"}

\* skip_layer_check that leaves out every layer, whatever the mode.
MutSkipAlways(mode, gpl_active_index, gpl_index) == TRUE

\* skip_layer_check: the layer is left out by the layer mode.
skip_layer_check(mode, gpl_active_index, gpl_index) ==
    CASE mode = "ACTIVE" -> gpl_index # gpl_active_index
      [] mode = "ABOVE" -> gpl_index # gpl_active_index + 1
      [] mode = "BELOW" -> gpl_index # gpl_active_index - 1
      [] mode = "ALL_ABOVE" -> gpl_index <= gpl_active_index
      [] mode = "ALL_BELOW" -> gpl_index >= gpl_active_index
      [] OTHER -> FALSE

\* The drawing functions a draw mode calls for a stroke.
DrawCalls(draw_mode) ==
    (IF draw_mode \in {"STROKE", "BOTH"} THEN {"ED_gpencil_draw_fill"} ELSE {})
    \cup (IF draw_mode \in {"CONTROL", "BOTH"} THEN {"gpencil_draw_basic_stroke"} ELSE {})

\* The loop over the strokes of the frame of a layer.
RECURSIVE DrawStrokes(_, _, _, _, _, _)
DrawStrokes(strokes, gpl_index, skip, draw_mode, k, out) ==
    IF k > Len(strokes) THEN out
    ELSE LET gps == strokes[k]
         IN  IF gps.totpoints < 2 THEN DrawStrokes(strokes, gpl_index, skip, draw_mode, k + 1, out)
             ELSE IF gps.material_hide
             THEN DrawStrokes(strokes, gpl_index, skip, draw_mode, k + 1, out)
             ELSE IF skip /\ ~gps.nofill
             THEN DrawStrokes(strokes, gpl_index, skip, draw_mode, k + 1, out)
             ELSE DrawStrokes(strokes, gpl_index, skip, draw_mode, k + 1,
                              Append(out, [layer |-> gpl_index, stroke |-> k,
                                           calls |-> DrawCalls(draw_mode)]))

\* gpencil_draw_datablock: the loop over the layers; a layer is an entry of
\* the list, its index counted from 0, gpf the frame the layer shows at the
\* frame of the fill.
RECURSIVE gpencil_draw_datablock(_, _, _, _, _)
gpencil_draw_datablock(data, mode, draw_mode, l, out) ==
    IF l > Len(data.layers) THEN out
    ELSE LET gpl == data.layers[l]
             skip == skip_layer_check(mode, data.active, l - 1)
         IN  IF gpl.hide THEN gpencil_draw_datablock(data, mode, draw_mode, l + 1, out)
             ELSE IF gpl.gpf.null
             THEN gpencil_draw_datablock(data, mode, draw_mode, l + 1, out)
             ELSE gpencil_draw_datablock(data, mode, draw_mode, l + 1,
                      DrawStrokes(gpl.gpf.strokes, l - 1, skip, draw_mode, 1, out))

\* The strokes a frame can hold: one stroke of one or two points, its material
\* hidden or not, flagged as a boundary stroke or not.
DrawnStrokes ==
    [totpoints : {1, 2}, material_hide : BOOLEAN, nofill : BOOLEAN]

DrawnFrames ==
    {[null |-> TRUE, strokes |-> <<>>]}
    \cup {[null |-> FALSE, strokes |-> <<gps>>] : gps \in DrawnStrokes}

\* The datablocks drawn; the active layer has a frame, the one the tool makes
\* sure of before it draws.
DrawnDatablocks ==
    {data \in [layers : [1..NumLayers -> [hide : BOOLEAN, gpf : DrawnFrames]],
               active : 0..(NumLayers - 1)] :
        ~data.layers[data.active + 1].gpf.null}

DrawInit ==
    /\ SculptIdle
    /\ OpFillIdle
    /\ ibuf = [x |-> 0, y |-> 0, rect_float |-> <<>>]
    /\ fill_leak = 0
    /\ is_inverted = FALSE
    /\ fill_step = "Datablock"
    /\ stack = <<>>
    /\ totpoints = 0
    /\ sbuffer_used = 0
    /\ rendered = <<>>
    /\ oob_access = {}
    /\ inversions = 0
    /\ wall = <<>>
    /\ gpd \in DrawnDatablocks
    /\ fill_layer_mode \in FillLayerModes
    /\ fill_draw_mode \in FillDrawModes
    /\ drawn = <<>>

\* The render of the datablock of a fill.
DrawDatablock ==
    /\ fill_step = "Datablock"
    /\ drawn' = gpencil_draw_datablock(gpd, fill_layer_mode, fill_draw_mode, 1, <<>>)
    /\ fill_step' = "Drawn"
    /\ UNCHANGED <<expandVars, opFillVars, gpd, fill_layer_mode, fill_draw_mode, ibuf,
                   fill_leak, is_inverted, stack, totpoints, sbuffer_used, rendered,
                   oob_access, inversions, wall>>

DrawNext == DrawDatablock

SpecDraw == DrawInit /\ [][DrawNext]_vars

\* The layer of index gpl_index is included by the layer mode.
LayerIncluded(gpl_index) ==
    \/ fill_layer_mode = "VISIBLE"
    \/ fill_layer_mode = "ACTIVE" /\ gpl_index = gpd.active
    \/ fill_layer_mode = "ABOVE" /\ gpl_index = gpd.active + 1
    \/ fill_layer_mode = "BELOW" /\ gpl_index = gpd.active - 1
    \/ fill_layer_mode = "ALL_ABOVE" /\ gpl_index > gpd.active
    \/ fill_layer_mode = "ALL_BELOW" /\ gpl_index < gpd.active

\* The stroke k of the layer of index gpl_index was handed to a drawing
\* function.
StrokeDrawn(gpl_index, k) ==
    \E d \in DOMAIN drawn :
        /\ drawn[d].layer = gpl_index
        /\ drawn[d].stroke = k
        /\ drawn[d].calls # {}

\* C16: after the render, a stroke of a layer that is not hidden, with two
\* points or more and a material that is visible, has been drawn if and only
\* if the layer mode includes its layer or the stroke is a boundary stroke.
C16_BoundaryStrokes ==
    fill_step = "Drawn" =>
        \A l \in 1..Len(gpd.layers) :
            (~gpd.layers[l].hide /\ ~gpd.layers[l].gpf.null) =>
                \A k \in DOMAIN gpd.layers[l].gpf.strokes :
                    LET gps == gpd.layers[l].gpf.strokes[k]
                    IN  (gps.totpoints >= 2 /\ ~gps.material_hide) =>
                            (StrokeDrawn(l - 1, k) <=> (LayerIncluded(l - 1) \/ gps.nofill))

\* In the mode "all above" with the second layer active: the boundary stroke
\* of the first layer and the stroke of the third layer were drawn, the stroke
\* of the active layer, which is no boundary stroke, was left out.
C16_Witness ==
    /\ fill_step = "Drawn"
    /\ fill_layer_mode = "ALL_ABOVE"
    /\ gpd.active = 1
    /\ ~gpd.layers[1].hide
    /\ ~gpd.layers[1].gpf.null
    /\ gpd.layers[1].gpf.strokes[1].nofill
    /\ StrokeDrawn(0, 1)
    /\ ~gpd.layers[2].gpf.strokes[1].nofill
    /\ gpd.layers[2].gpf.strokes[1].totpoints = 2
    /\ ~gpd.layers[2].gpf.strokes[1].material_hide
    /\ ~gpd.layers[2].hide
    /\ ~StrokeDrawn(1, 1)
    /\ StrokeDrawn(2, 1)

(* ------------------------------------------------------------------ *)
(* SpecFillOp: the fill operator, its session and its resources       *)
(* ------------------------------------------------------------------ *)

\* The largest number of frames a fill goes through.
MaxFrames == 2

\* The temporary resources of a session: the image of a pass (tgpf->ima), the
\* stack of outline points, the point buffer, the depth array, the stroke of
\* the mouse position and the session object itself.
ResNames == {"ima", "stack", "sbuffer", "depth_arr", "gps_mouse", "tgpf"}

\* A pointer is NULL, points to a live block, or still points to a block that
\* was released.  lost counts the live blocks whose pointer was overwritten,
\* bad the releases of a block that was not live.
ResNone ==
    [r \in ResNames |-> [ptr |-> "NULL", allocs |-> 0, frees |-> 0, lost |-> 0, bad |-> 0]]

\* p = alloc(): the pointer is overwritten with a new block.
ResAlloc(res, r) ==
    [res EXCEPT ![r] = [ptr |-> "LIVE", allocs |-> @.allocs + 1, frees |-> @.frees,
                        lost |-> @.lost + (IF @.ptr = "LIVE" THEN 1 ELSE 0),
                        bad |-> @.bad]]

\* free(p): the block is released, the pointer keeps its value.
ResFree(res, r) ==
    IF res[r].ptr = "LIVE"
    THEN [res EXCEPT ![r].ptr = "FREED", ![r].frees = @ + 1]
    ELSE [res EXCEPT ![r].bad = @ + 1]

\* if (p) free(p) that sees no pointer: the block is never released.
MutResNeverFreed(res, r) == res

\* if (p) free(p).
ResFreeIfSet(res, r) == IF res[r].ptr = "NULL" THEN res ELSE ResFree(res, r)

\* MEM_SAFE_FREE(p): if (p) { free(p); p = NULL; }.
MEM_SAFE_FREE(res, r) ==
    IF res[r].ptr = "NULL" THEN res
    ELSE [ResFree(res, r) EXCEPT ![r].ptr = "NULL"]

\* The point counts of the outlines found by the successive rounds of a pass:
\* the rounds of an inverted fill go on until an outline has no point.
OutlineRuns == {<<0>>, <<3, 0>>, <<3, 4, 0>>}

\* gpencil_get_outline_points and gpencil_points_from_stack: a new stack, and
\* a new point buffer when the outline has points.
PassPoints(st, n) ==
    IF n = 0 THEN [st EXCEPT !.res = ResAlloc(@, "stack")]
    ELSE [st EXCEPT !.res = ResAlloc(ResAlloc(@, "stack"), "sbuffer"),
                    !.tgpf.sbuffer_used =
                        gpencil_points_from_stack(@, n).sbuffer_used]

\* gpencil_get_depth_array: the depth of each point of the buffer, read
\* through tgpf->sbuffer for sbuffer_used points.
PassDepth(st, depth_view) ==
    IF st.tgpf.sbuffer_used = 0 \/ ~depth_view THEN st
    ELSE [st EXCEPT !.res = ResAlloc(@, "depth_arr"),
                    !.crashed = st.res["sbuffer"].ptr # "LIVE"]

\* gpencil_stroke_from_buffer: a stroke of sbuffer_used points, filled from
\* the buffer when there is one.
PassStroke(st) ==
    IF st.crashed \/ st.tgpf.sbuffer_used = 0 THEN st
    ELSE [st EXCEPT !.strokes = Append(@, [totpoints |-> st.tgpf.sbuffer_used,
                                           from_buffer |-> st.res["sbuffer"].ptr = "LIVE"])]

\* The end of a round: the stack, the point buffer and the depth array.
PassRelease(st) ==
    IF st.crashed THEN st
    ELSE [st EXCEPT !.res = MEM_SAFE_FREE(MEM_SAFE_FREE(ResFreeIfSet(@, "stack"), "sbuffer"),
                                          "depth_arr")]

\* The loop of gpencil_do_frame_fill over the outlines of the image.
RECURSIVE PassRounds(_, _, _, _, _)
PassRounds(st, is_inv, depth_view, outlines, i) ==
    LET done == PassRelease(PassStroke(PassDepth(PassPoints(st, outlines[i]), depth_view)))
    IN  IF done.crashed \/ ~is_inv \/ outlines[i] = 0 THEN done
        ELSE PassRounds(done, is_inv, depth_view, outlines, i + 1)

\* After the loop the image of the pass is deleted.
PassImage(st) ==
    IF st.crashed THEN st ELSE [st EXCEPT !.res = ResFreeIfSet(@, "ima")]

\* gpencil_do_frame_fill: offscreen tells whether GPU_offscreen_create gave a
\* buffer.  The pass is added to the log with what it did.
gpencil_do_frame_fill(st, is_inv, depth_view, offscreen, outlines) ==
    IF ~offscreen
    THEN [st EXCEPT !.log = Append(@, [offscreen |-> FALSE, processed |-> FALSE,
                                       strokes |-> <<>>, returned |-> FALSE,
                                       inverted |-> is_inv, outlines |-> outlines])]
    ELSE LET after == PassImage(PassRounds([st EXCEPT !.res = ResAlloc(@, "ima"),
                                                      !.strokes = <<>>],
                                           is_inv, depth_view, outlines, 1))
         IN  [after EXCEPT !.log = Append(@, [offscreen |-> TRUE, processed |-> TRUE,
                                              strokes |-> after.strokes,
                                              returned |-> ~after.crashed,
                                              inverted |-> is_inv, outlines |-> outlines])]

\* The loop of the modal handler over the selected frames.
RECURSIVE FillFrames(_, _, _, _, _)
FillFrames(st, is_inv, depth_view, frames, k) ==
    IF k > Len(frames) \/ st.crashed THEN st
    ELSE FillFrames(gpencil_do_frame_fill(st, is_inv, depth_view, frames[k].offscreen,
                                          frames[k].outlines),
                    is_inv, depth_view, frames, k + 1)

\* gpencil_fill_exit: the buffers of the session and the session object.
gpencil_fill_exit(st) ==
    IF st.res["tgpf"].ptr = "NULL" THEN st
    ELSE [st EXCEPT !.res = [ResFree(MEM_SAFE_FREE(MEM_SAFE_FREE(@, "sbuffer"), "depth_arr"),
                                     "tgpf") EXCEPT !["tgpf"].ptr = "NULL"]]

\* The variables of the raster stages and of the datablock, which the operator
\* model leaves alone.
rasterVars == <<ibuf, fill_leak, is_inverted, fill_step, stack, totpoints, sbuffer_used,
                rendered, oob_access, inversions, wall>>

\* What the context holds when the operator is invoked: the material pinned
\* to the brush and the one active on the object, the lock of the active
\* layer, the help lines and the direction of the brush, and the projection
\* of new strokes on the depth of the view.
FillContexts ==
    [material_pinned : BOOLEAN, brush_material : BOOLEAN, active_material : BOOLEAN,
     layer_locked : BOOLEAN, helplines : BOOLEAN, brush_inv : BOOLEAN, depth_view : BOOLEAN]

FillOpInit ==
    /\ SculptIdle
    /\ DrawIdle
    /\ ibuf = [x |-> 0, y |-> 0, rect_float |-> <<>>]
    /\ fill_leak = 0
    /\ is_inverted = FALSE
    /\ fill_step = "None"
    /\ stack = <<>>
    /\ totpoints = 0
    /\ sbuffer_used = 0
    /\ rendered = <<>>
    /\ oob_access = {}
    /\ inversions = 0
    /\ wall = <<>>
    /\ gp_context \in FillContexts
    /\ tgpf = <<>>
    /\ op_reports = <<>>
    /\ estate = "NONE"
    /\ gp_session = "None"
    /\ resources = ResNone
    /\ fill_log = <<>>

FillOpFrame == UNCHANGED <<expandVars, drawVars, rasterVars, gp_context>>

\* gpencil_session_init_fill: the values of a new session.
gpencil_session_init_fill(ctx) ==
    [oldkey |-> "NONE", sbuffer_used |-> 0, flag_helplines |-> ctx.helplines,
     draw_handle_3d |-> FALSE]

\* gpencil_fill_invoke.
FillInvoke ==
    /\ gp_session = "None"
    /\ FillOpFrame
    /\ fill_log' = fill_log
    /\ LET valid == IF gp_context.material_pinned THEN gp_context.brush_material
                    ELSE gp_context.active_material
       IN  IF ~valid
           THEN /\ op_reports' = Append(op_reports, "Fill tool needs active material")
                /\ estate' = "OPERATOR_CANCELLED"
                /\ gp_session' = "Refused"
                /\ UNCHANGED <<tgpf, resources>>
           ELSE IF gp_context.layer_locked
           THEN /\ estate' = "OPERATOR_CANCELLED"
                /\ gp_session' = "Refused"
                /\ resources' = gpencil_fill_exit([res |-> resources]).res
                /\ UNCHANGED <<tgpf, op_reports>>
           ELSE /\ tgpf' = [gpencil_session_init_fill(gp_context)
                              EXCEPT !.draw_handle_3d = gp_context.helplines]
                /\ resources' = ResAlloc(resources, "tgpf")
                /\ estate' = "OPERATOR_RUNNING_MODAL"
                /\ gp_session' = "Modal"
                /\ UNCHANGED op_reports

\* The last part of gpencil_fill_modal: the session ends unless the event
\* passes through.
ModalEnd(ret, st) ==
    /\ estate' = ret
    /\ fill_log' = st.log
    /\ IF st.crashed
       THEN /\ gp_session' = "Crashed"
            /\ tgpf' = st.tgpf
            /\ resources' = st.res
       ELSE IF ret \in {"OPERATOR_FINISHED", "OPERATOR_CANCELLED"}
       THEN /\ gp_session' = IF ret = "OPERATOR_FINISHED" THEN "Finished" ELSE "Cancelled"
            /\ tgpf' = <<>>
            /\ resources' = gpencil_fill_exit(st).res
       ELSE /\ gp_session' = "Modal"
            /\ tgpf' = st.tgpf
            /\ resources' = st.res

ModalState == [tgpf |-> tgpf, res |-> resources, log |-> <<>>, strokes |-> <<>>,
               crashed |-> FALSE]

\* EVT_ESCKEY and RIGHTMOUSE.
FillModalCancel ==
    /\ gp_session = "Modal"
    /\ FillOpFrame
    /\ ModalEnd("OPERATOR_CANCELLED", ModalState)
    /\ UNCHANGED op_reports

\* Any other event but LEFTMOUSE passes through.
FillModalOther ==
    /\ gp_session = "Modal"
    /\ FillOpFrame
    /\ ModalEnd("OPERATOR_PASS_THROUGH", ModalState)
    /\ UNCHANGED op_reports

\* The frames of a fill: for each the answer of GPU_offscreen_create and the
\* outlines its image gives.
FillFrameInputs ==
    {[offscreen |-> FALSE, outlines |-> <<0>>]}
    \cup {[offscreen |-> TRUE, outlines |-> o] : o \in OutlineRuns}

\* The fill of a click: the stroke of the mouse position lives from before
\* the first frame until after the last one.
FillClick(st, is_inv, depth_view, frames) ==
    LET ran == FillFrames([st EXCEPT !.res = ResAlloc(@, "gps_mouse")],
                          is_inv, depth_view, frames, 1)
    IN  IF ran.crashed THEN ran ELSE [ran EXCEPT !.res = ResFree(@, "gps_mouse")]

\* LEFTMOUSE: region tells whether the event lies in a window region.
FillModalLeftMouse ==
    /\ gp_session = "Modal"
    /\ FillOpFrame
    /\ UNCHANGED op_reports
    /\ \E ctrl \in BOOLEAN, region \in BOOLEAN, n \in 1..MaxFrames :
          \E frames \in [1..n -> FillFrameInputs] :
              LET is_inv == (gp_context.brush_inv /\ ~ctrl) \/ (~gp_context.brush_inv /\ ctrl)
                  keyed == [ModalState EXCEPT !.tgpf.oldkey = "LEFTMOUSE"]
              IN  IF tgpf.oldkey = "NONE" /\ tgpf.flag_helplines
                  THEN ModalEnd("OPERATOR_PASS_THROUGH", keyed)
                  ELSE IF ~region THEN ModalEnd("OPERATOR_CANCELLED", keyed)
                  ELSE ModalEnd("OPERATOR_FINISHED",
                                FillClick(keyed, is_inv, gp_context.depth_view, frames))

\* gpencil_fill_cancel, called when the window manager ends the operator: the
\* exit of the session and nothing else.
FillOperatorCancel ==
    /\ gp_session = "Modal"
    /\ FillOpFrame
    /\ gp_session' = "Cancelled"
    /\ tgpf' = <<>>
    /\ resources' = gpencil_fill_exit(ModalState).res
    /\ UNCHANGED <<op_reports, estate, fill_log>>

FillOpNext ==
    \/ FillInvoke
    \/ FillModalCancel
    \/ FillModalOther
    \/ FillModalLeftMouse
    \/ FillOperatorCancel

SpecFillOp == FillOpInit /\ [][FillOpNext]_vars

\* ---------------------------------------------------------------------------
\* Claims on the fill operator
\* ---------------------------------------------------------------------------

\* A pass whose offscreen buffer could not be created did nothing: no stage ran
\* on an image and no stroke was made; the other passes of the click ran.
FailedPassDoesNothing ==
    \A p \in DOMAIN fill_log :
        IF fill_log[p].offscreen THEN fill_log[p].processed
        ELSE ~fill_log[p].processed /\ fill_log[p].strokes = <<>>

\* C17: when the offscreen buffer of a pass cannot be created only that pass
\* is given up: it processes no pixel and makes no stroke, and the session is
\* still there, running modal.
C17_FailedBufferKeepsSession ==
    \A p \in DOMAIN fill_log :
        ~fill_log[p].offscreen =>
            /\ ~fill_log[p].processed
            /\ fill_log[p].strokes = <<>>
            /\ gp_session = "Modal"
            /\ tgpf # <<>>

\* The operator finds no material to fill with.
NoFillMaterial ==
    IF gp_context.material_pinned THEN ~gp_context.brush_material
    ELSE ~gp_context.active_material

\* An invoke that is refused leaves no session: it returns cancelled, the
\* operator holds no session object and none was allocated.
InvokeRefusedNoSession ==
    (gp_session # "None" /\ (NoFillMaterial \/ gp_context.layer_locked))
        => /\ gp_session = "Refused"
           /\ estate = "OPERATOR_CANCELLED"
           /\ tgpf = <<>>
           /\ resources = ResNone

\* An invoke without a material reports the error.
NoMaterialReported ==
    (gp_session # "None" /\ NoFillMaterial)
        => op_reports = <<"Fill tool needs active material">>

\* C18: an invoke without an active material or with the active layer locked
\* ends before a session starts: it returns cancelled, leaves no session
\* object, and has reported an error to the user.
C18_InvokeRefused ==
    (gp_session # "None" /\ (NoFillMaterial \/ gp_context.layer_locked))
        => /\ estate = "OPERATOR_CANCELLED"
           /\ tgpf = <<>>
           /\ resources = ResNone
           /\ op_reports # <<>>

PassCrashed == gp_session = "Crashed"

(* ------------------------------------------------------------------ *)
(* SpecApply: the parallel update of the mask and of the colours      *)
(* ------------------------------------------------------------------ *)

SCULPT_EXPAND_TARGET_COLORS == "COLORS"

\* Most leaf nodes the PBVH of the sculpted mesh has.
MaxNodes == 2

\* The modes of the PBVH vertex iterator the source uses.
PBVH_ITER_ALL == "ALL"
PBVH_ITER_UNIQUE == "UNIQUE"

\* The vertices of the faces of leaf node n.
NodeFaceVerts(m, node_of_face, n) ==
    UNION {SeqRange(m.mpoly[f]) : f \in {g \in Faces(m) : node_of_face[g] = n}}

\* The leaf nodes BKE_pbvh_search_gather returns for a PBVH built over a
\* partition of the faces: a node lists the vertices of its faces, first the
\* ones no earlier node lists (uniq_verts of them), then the ones it shares
\* with an earlier node (face_verts of them).
BKE_pbvh_search_gather(m, node_of_face, totnode) ==
    [n \in 0..(totnode - 1) |->
        LET all == NodeFaceVerts(m, node_of_face, n)
            earlier == UNION {NodeFaceVerts(m, node_of_face, k) : k \in 0..(n - 1)}
        IN  [vert_indices |-> SortedSeq(all \ earlier) \o SortedSeq(all \cap earlier),
             uniq_verts |-> Cardinality(all \ earlier),
             face_verts |-> Cardinality(all \cap earlier)]]

\* BKE_pbvh_vertex_iter_begin: the vertices the iterator of a node yields.
BKE_pbvh_vertex_iter(node, mode) ==
    IF mode = PBVH_ITER_UNIQUE THEN SubSeq(node.vert_indices, 1, node.uniq_verts)
    ELSE node.vert_indices

\* The partitions of the faces of a mesh into leaf nodes: every node has a face.
FacePartitions(m) ==
    {p \in [Faces(m) -> 0..(MaxNodes - 1)] :
        \E k \in 1..MaxNodes : {p[f] : f \in Faces(m)} = 0..(k - 1)}

PartitionNodes(p) == Cardinality({p[f] : f \in DOMAIN p})

\* new_mask of sculpt_expand_mask_update_task_cb before it is compared with
\* the mask the vertex holds.
MaskTaskNewMask(m, c, ff, max_ff_factor, fsets, i) ==
    LET enabled == sculpt_expand_state_get(m, c, ff, fsets, i)
        graded == IF enabled THEN sculpt_expand_gradient_falloff_get(c, ff, max_ff_factor, i)
                  ELSE F(0)
    IN  IF c.preserve THEN max_ff(graded, c.initial_mask[i]) ELSE graded

\* IMB_blend_color_float in the mix mode on the alpha channel, the channel the
\* model keeps of a colour: the premultiplied "over" of src2 on src1.
IMB_blend_color_float(src1, src2) ==
    IF FEq(src2, F(0)) THEN src1
    ELSE FAdd(FMul(FSub(F(1), src2), src1), src2)

\* final_color of sculpt_expand_colors_update_task_cb; the alpha of the fill
\* colour is 1.
ColorsTaskFinalColor(m, c, ff, max_ff_factor, fsets, cur_mask, initial_color, i) ==
    LET enabled == sculpt_expand_state_get(m, c, ff, fsets, i)
        graded == IF enabled THEN sculpt_expand_gradient_falloff_get(c, ff, max_ff_factor, i)
                  ELSE F(0)
        fade == clamp_f(FMul(graded, FSub(F(1), cur_mask[i])), F(0), F(1))
    IN  IMB_blend_color_float(initial_color[i], FMul(F(1), fade))

\* The colours of the mesh before the session.
InitialColors(m) == [v \in Verts(m) |-> <<F(0), Frac(1, 2)>>[(v % 2) + 1]]

ApplyMeshes == {Rhombus}

ApplyTargets ==
    {SCULPT_EXPAND_TARGET_MASK, SCULPT_EXPAND_TARGET_FACE_SETS, SCULPT_EXPAND_TARGET_COLORS}

\* A session after its invoke: the topology field from an origin, the
\* snapshots, the switches of the modal keys, and the vertex under the cursor.
ApplyInit ==
    /\ FillIdle
    /\ mesh \in ApplyMeshes
    /\ symm = 0
    /\ nearest_fail = {}
    /\ boundary_none = "NULL"
    /\ initial_active_vertex \in {0, 1}
    /\ falloff_factor =
           sculpt_expand_topology_falloff_create(mesh, initial_active_vertex, 0, {})
    /\ max_falloff_factor = sculpt_expand_update_max_falloff_factor(mesh, falloff_factor)
    /\ falloff_factor_type = "TOPOLOGY"
    /\ edge_sensitivity = 0
    /\ null_deref = FALSE
    /\ boundary_queries = <<>>
    /\ mask = InitialMask(mesh)
    /\ face_sets = InitialFaceSets(mesh)
    /\ active_vertex \in Verts(mesh) \cup {SCULPT_EXPAND_VERTEX_NONE}
    /\ active_face_index = 0
    /\ \E target \in ApplyTargets, invert \in BOOLEAN, preserve \in BOOLEAN,
          falloff_gradient \in BOOLEAN :
           expand_cache =
               [CallocCache EXCEPT
                    !.target = target, !.invert = invert, !.preserve = preserve,
                    !.falloff_gradient = falloff_gradient,
                    !.initial_mask = InitialMask(mesh),
                    !.initial_face_sets = InitialFaceSets(mesh),
                    !.next_face_set =
                        ED_sculpt_face_sets_find_next_available_id(
                            mesh, InitialFaceSets(mesh)),
                    !.face_falloff_factor =
                        sculpt_expand_mesh_face_falloff_from_vertex_falloff(
                            mesh, falloff_factor),
                    !.max_face_falloff_factor =
                        sculpt_expand_update_max_face_falloff_factor(
                            mesh,
                            sculpt_expand_mesh_face_falloff_from_vertex_falloff(
                                mesh, falloff_factor))]
    /\ session = "Active"
    /\ modal_ret = OPERATOR_RUNNING_MODAL
    /\ undo_open = 1
    /\ last_event = "NONE"
    /\ nevents = 0
    /\ start_mask = InitialMask(mesh)
    /\ start_face_sets = InitialFaceSets(mesh)
    /\ pointer = active_vertex
    /\ move_mask = <<>>
    /\ confirm_pointer = -1
    /\ \E p \in FacePartitions(mesh) :
           pbvh = BKE_pbvh_search_gather(mesh, p, PartitionNodes(p))
    /\ apply_step = "Update"
    /\ task_cb = <<>>
    /\ vert_visits = [v \in Verts(mesh) |-> {}]
    /\ vert_writes = [v \in Verts(mesh) |-> {}]
    /\ vcol = [col |-> InitialColors(mesh), initial_color |-> InitialColors(mesh)]

\* What the steps of the update leave alone.
ApplyFrame ==
    UNCHANGED <<meshVars, fieldVars, active_vertex, active_face_index, opVars, historyVars,
                pbvh, fillVars>>

\* sculpt_expand_update_for_vertex up to the dispatch: the active factor is
\* set; the face sets are updated by the calling thread, the mask and the
\* colours by one task per node of BLI_task_parallel_range.
ApplyUpdate ==
    /\ apply_step = "Update"
    /\ LET c1 == [expand_cache EXCEPT !.active_factor =
                     IF active_vertex = SCULPT_EXPAND_VERTEX_NONE THEN max_falloff_factor
                     ELSE falloff_factor[active_vertex]]
       IN  /\ expand_cache' = c1
           /\ IF c1.target = SCULPT_EXPAND_TARGET_FACE_SETS
              THEN /\ face_sets' = sculpt_expand_face_sets_update(
                                       mesh, c1, sculpt_expand_face_sets_restore(c1), 0)
                   /\ apply_step' = "Flushed"
                   /\ task_cb' = [i \in DOMAIN pbvh |->
                                      [vi |-> 1, phase |-> "idle", initial |-> F(0),
                                       any_changed |-> FALSE, marked |-> TRUE]]
              ELSE /\ face_sets' = face_sets
                   /\ apply_step' = "Tasks"
                   /\ task_cb' = [i \in DOMAIN pbvh |->
                                      [vi |-> 1, phase |-> "iter", initial |-> F(0),
                                       any_changed |-> FALSE, marked |-> FALSE]]
    /\ UNCHANGED <<mask, vert_visits, vert_writes, vcol>>
    /\ ApplyFrame

\* The vertex task i is at.
TaskVertex(i) == BKE_pbvh_vertex_iter(pbvh[i], PBVH_ITER_ALL)[task_cb[i].vi]

\* The iterator of task i yields its next vertex and the body reads the value
\* the vertex holds (initial_mask, initial_color).
ApplyTaskVisit(i) ==
    /\ apply_step = "Tasks"
    /\ task_cb[i].phase = "iter"
    /\ LET v == TaskVertex(i)
       IN  /\ task_cb' = [task_cb EXCEPT
                             ![i].phase = "body",
                             ![i].initial =
                                 IF expand_cache.target = SCULPT_EXPAND_TARGET_MASK
                                 THEN mask[v] ELSE vcol.col[v]]
           /\ vert_visits' = [vert_visits EXCEPT ![v] = @ \cup {i}]
    /\ UNCHANGED <<mask, face_sets, expand_cache, apply_step, vert_writes, vcol>>
    /\ ApplyFrame

\* The place of task i after the body of a vertex: the next vertex, or the end
\* of the callback, where a node with a change is marked for an update.
TaskAdvance(t, i, changed) ==
    LET any_changed == t.any_changed \/ changed
        last == t.vi = Len(BKE_pbvh_vertex_iter(pbvh[i], PBVH_ITER_ALL))
    IN  [t EXCEPT !.vi = @ + 1,
                  !.phase = IF last THEN "done" ELSE "iter",
                  !.any_changed = any_changed,
                  !.marked = last /\ any_changed]

\* The rest of the body of task i for its vertex: the new value is computed
\* and stored unless it equals the value read.
ApplyTaskStore(i) ==
    /\ apply_step = "Tasks"
    /\ task_cb[i].phase = "body"
    /\ LET v == TaskVertex(i)
           new_mask == MaskTaskNewMask(mesh, expand_cache, falloff_factor,
                                       max_falloff_factor, face_sets, v)
           final_color == ColorsTaskFinalColor(mesh, expand_cache, falloff_factor,
                                               max_falloff_factor, face_sets, mask,
                                               vcol.initial_color, v)
           skip == IF expand_cache.target = SCULPT_EXPAND_TARGET_MASK
                   THEN FEq(new_mask, task_cb[i].initial)
                   ELSE task_cb[i].initial = final_color
       IN  /\ mask' = IF ~skip /\ expand_cache.target = SCULPT_EXPAND_TARGET_MASK
                      THEN [mask EXCEPT ![v] = clamp_f(new_mask, F(0), F(1))]
                      ELSE mask
           /\ vcol' = IF ~skip /\ expand_cache.target = SCULPT_EXPAND_TARGET_COLORS
                      THEN [vcol EXCEPT !.col[v] = final_color]
                      ELSE vcol
           /\ vert_writes' = IF skip THEN vert_writes
                             ELSE [vert_writes EXCEPT ![v] = @ \cup {i}]
           /\ task_cb' = [task_cb EXCEPT ![i] = TaskAdvance(@, i, ~skip)]
    /\ UNCHANGED <<face_sets, expand_cache, apply_step, vert_visits>>
    /\ ApplyFrame

\* BLI_task_parallel_range returns when every task has ended, and
\* sculpt_expand_flush_updates follows.
ApplyFlush ==
    /\ apply_step = "Tasks"
    /\ \A i \in DOMAIN task_cb : task_cb[i].phase = "done"
    /\ apply_step' = "Flushed"
    /\ UNCHANGED <<mask, face_sets, expand_cache, task_cb, vert_visits, vert_writes, vcol>>
    /\ ApplyFrame

ApplyNext ==
    \/ ApplyUpdate
    \/ \E i \in DOMAIN task_cb : ApplyTaskVisit(i)
    \/ \E i \in DOMAIN task_cb : ApplyTaskStore(i)
    \/ ApplyFlush

SpecApply == ApplyInit /\ [][ApplyNext]_vars

\* The update has ended and it was made by the parallel tasks.
ParallelFlushed ==
    /\ apply_step = "Flushed"
    /\ expand_cache.target \in {SCULPT_EXPAND_TARGET_MASK, SCULPT_EXPAND_TARGET_COLORS}

\* The tasks whose node lists the vertex.
NodesOfVertex(v) == {i \in DOMAIN pbvh : v \in SeqRange(pbvh[i].vert_indices)}

\* C20: after one parallel update of the mask or of the colours every vertex
\* of the mesh has been visited by exactly one task and no vertex has been
\* written by a task other than that one, whatever the partition of the mesh
\* into nodes.
C20_ExactlyOneTask ==
    ParallelFlushed =>
        \A v \in Verts(mesh) :
            /\ Cardinality(vert_visits[v]) = 1
            /\ vert_writes[v] \subseteq vert_visits[v]

\* No vertex is missed: every vertex is visited by every task whose node
\* lists it, and some node lists it.
ApplyNoneMissed ==
    ParallelFlushed =>
        \A v \in Verts(mesh) : vert_visits[v] = NodesOfVertex(v) /\ vert_visits[v] # {}

\* A vertex only one node lists is visited by one task and written by no other.
ApplyUniqueOnce ==
    ParallelFlushed =>
        \A v \in Verts(mesh) :
            Cardinality(NodesOfVertex(v)) = 1 =>
                Cardinality(vert_visits[v]) = 1 /\ Cardinality(vert_writes[v]) <= 1

\* The mask after the parallel update is the one a single pass over the
\* vertices gives, in every order of the tasks.
ApplyMaskAsSerial ==
    (apply_step = "Flushed" /\ expand_cache.target = SCULPT_EXPAND_TARGET_MASK) =>
        mask = sculpt_expand_update_for_vertex(mesh, expand_cache, falloff_factor,
                                               max_falloff_factor, start_mask, face_sets,
                                               active_vertex).mask

\* A vertex shared between two nodes was written by both tasks.
SharedWrittenTwice ==
    ParallelFlushed /\ \E v \in Verts(mesh) : Cardinality(vert_writes[v]) = 2

\* A vertex shared between two nodes was visited by both tasks and written by
\* one: the second task read the value the first had stored.
SharedWrittenOnce ==
    ParallelFlushed /\ \E v \in Verts(mesh) :
        Cardinality(vert_visits[v]) = 2 /\ Cardinality(vert_writes[v]) = 1

\* The update ran over a PBVH of one node.
SingleNodeFlushed ==
    ParallelFlushed /\ DOMAIN pbvh = {0} /\ \E v \in Verts(mesh) : vert_writes[v] = {0}

(* ------------------------------------------------------------------ *)
(* The snap mode                                                      *)
(* ------------------------------------------------------------------ *)

\* The step is the handling of a snap toggle event.
SnapToggled == last_event' = "SNAP_TOGGLE" /\ nevents' = nevents + 1

\* The snapshot ids all of whose faces have every vertex at or below the
\* active factor.
FullyEnabledIds ==
    {p \in {expand_cache.initial_face_sets[f] : f \in Faces(mesh)} :
        \A f \in Faces(mesh) :
            expand_cache.initial_face_sets[f] = p =>
                \A l \in DOMAIN mesh.mpoly[f] :
                    FLessEq(falloff_factor[mesh.mpoly[f][l]], expand_cache.active_factor)}

\* C21: a snap toggle that enters the snap mode leaves in the set exactly the
\* snapshot ids whose faces have all their vertices enabled under the plain
\* threshold test, with the snap flag set and the invert flag as it was; a
\* toggle that leaves the snap mode clears the set.
C21_SnapInitialize ==
    [][SnapToggled =>
          IF expand_cache.snap
          THEN /\ ~expand_cache'.snap
               /\ expand_cache'.snap_enabled_face_sets = [null |-> TRUE, keys |-> {}]
          ELSE /\ expand_cache'.snap
               /\ expand_cache'.invert = expand_cache.invert
               /\ ~expand_cache'.snap_enabled_face_sets.null
               /\ expand_cache'.snap_enabled_face_sets.keys = FullyEnabledIds]_vars

\* The snap mode was entered with the invert flag set, and the set kept one
\* snapshot id and dropped another.
C21_Witness ==
    /\ last_event = "SNAP_TOGGLE"
    /\ expand_cache.snap
    /\ expand_cache.invert
    /\ expand_cache.snap_enabled_face_sets.keys # {}
    /\ expand_cache.snap_enabled_face_sets.keys #
           {expand_cache.initial_face_sets[f] : f \in Faces(mesh)}

\* The snap mode was left.
SnapLeft ==
    /\ last_event = "SNAP_TOGGLE"
    /\ ~expand_cache.snap
    /\ expand_cache.snap_enabled_face_sets.null

(* ------------------------------------------------------------------ *)
(* The erase of the active face set                                   *)
(* ------------------------------------------------------------------ *)

\* The invoke erased the active face set from the snapshot and returned.
EraseDone == session = "Active" /\ last_event = "NONE" /\ expand_cache.modify_active

\* The faces that share a vertex with face f.
FacesAround(m, f) == UNION {VertFaces(m, m.mpoly[f][l]) : l \in DOMAIN m.mpoly[f]}

\* The faces a chain of vertex-sharing faces joins to the faces of S.
RECURSIVE FaceChain(_, _)
FaceChain(m, S) ==
    LET T == S \cup UNION {FacesAround(m, f) : f \in S}
    IN  IF T = S THEN S ELSE FaceChain(m, T)

\* The erase of delete_id took the array before to the array after, as far as
\* the faces in the set checked go: a face that did not carry the id keeps its
\* id, and a face that carried it and is joined to a face with another id
\* carries an id of the array before that is not delete_id.
ErasedOn(checked, before, after, delete_id) ==
    /\ \A f \in Faces(mesh) : before[f] # delete_id => after[f] = before[f]
    /\ \A f \in checked :
           (/\ before[f] = delete_id
            /\ \E g \in FaceChain(mesh, {f}) : before[g] # delete_id)
               => /\ after[f] # delete_id
                  /\ \E g \in Faces(mesh) : after[f] = before[g]

\* C22: after the erase of the active face set by the invoke, every face that
\* carried the id and that a chain of vertex-sharing faces joins to a face
\* with another id, face 0 included, carries another id, one that a face had
\* before the erase.
C22_EraseEveryFace ==
    EraseDone =>
        \E past_end \in PastEnd :
            ErasedOn(Faces(mesh), StoreInitialFaceSets(mesh, start_face_sets, past_end),
                     expand_cache.initial_face_sets, expand_cache.next_face_set)

\* The same for the faces other than face 0.
EraseButFaceZero ==
    EraseDone =>
        \E past_end \in PastEnd :
            ErasedOn(Faces(mesh) \ {0},
                     StoreInitialFaceSets(mesh, start_face_sets, past_end),
                     expand_cache.initial_face_sets, expand_cache.next_face_set)

\* The erase returned and replaced the id of a face other than face 0.
EraseReplaced ==
    /\ EraseDone
    /\ \E f \in Faces(mesh) \ {0} :
           /\ start_face_sets[f] = expand_cache.next_face_set
           /\ expand_cache.initial_face_sets[f] # expand_cache.next_face_set

(* ------------------------------------------------------------------ *)
(* SpecTraceAny: the outline of any set of filled pixels              *)
(* ------------------------------------------------------------------ *)

\* The boundary pixels of the image when the outline is taken: none, the
\* pixels around the filled ones, or every pixel inside the frame that is not
\* filled.
TraceBoundaries(w, h, blob) ==
    {{}, BlobRing(w, h, blob), Interior(w, h) \ blob}

\* The image when the outline is taken: any set of filled pixels inside the
\* cleared frame, in the first round of the loop (the shape is dilated) or in
\* a later one.
TraceAnyInit ==
    /\ SculptIdle
    /\ wall = <<>>
    /\ \E blob \in SUBSET Interior(TraceWidth, TraceHeight), round \in 1..2 :
          \E red \in TraceBoundaries(TraceWidth, TraceHeight, blob) :
              FillStart(Image(TraceWidth, TraceHeight, red, blob, {}),
                        0, FALSE, "Cleaned", round)

TraceAnyNext == FillOutline

SpecTraceAny == TraceAnyInit /\ [][TraceAnyNext]_vars

\* The filled pixels of the rendered image, as coordinates.
RenderedBlob ==
    {c \in Coords(ibuf.x, ibuf.y) : rendered[c[1] + (ibuf.x * c[2])] = COL_GREEN}

\* C23: on an image whose frame is clear, the analysis of the outline reaches
\* its stop condition for every set of filled pixels: it is never left in a
\* round that finds nothing away from the start, nor in a cycle of rounds that
\* does not pass the start.
C23_TraceTerminates == fill_step # "Hung"

\* The analysis returned with points for two filled pixels that touch at a
\* corner only.
C23_Witness ==
    /\ fill_step = "Traced"
    /\ stack # <<>>
    /\ \E p \in RenderedBlob, q \in RenderedBlob :
           /\ Abs(p[1] - q[1]) = 1
           /\ Abs(p[2] - q[2]) = 1
           /\ \A r \in RenderedBlob \ {p, q} : ~Adjacent8(r, p) /\ ~Adjacent8(r, q)

\* The analysis returned for a single filled pixel.
TraceSinglePixel ==
    /\ fill_step = "Traced"
    /\ Cardinality(RenderedBlob) = 1

\* No read of the analysis leaves the image.
TraceAnyInImage == fill_step # "Undefined"

(* ------------------------------------------------------------------ *)
(* The order of the stages of a pass                                  *)
(* ------------------------------------------------------------------ *)

\* The pixels of the frame of the image all have a colour of the set.
FrameIn(colours) == \A i \in BorderIndices(ibuf) : ibuf.rect_float[i] \in colours

\* The stage that may follow the stage the pass is at.
StageFollows ==
    CASE fill_step = "Rendered" -> fill_step' = "Bordered"
      [] fill_step = "Bordered" -> fill_step' = "Filled"
      [] fill_step = "Filled" -> fill_step' = IF is_inverted THEN "Inverted" ELSE "Cleaned"
      [] fill_step = "Inverted" -> fill_step' = "Cleaned"
      [] fill_step = "Cleaned" -> fill_step' \in {"Traced", "Hung"}
      [] fill_step = "Traced" -> fill_step' \in {"Cleaned", "Done"}
      [] OTHER -> FALSE

\* The frame before and after the flood fill and before the first outline.
FrameOfStage ==
    /\ fill_step \in {"Bordered", "Filled"} => FrameIn({COL_RED})
    /\ (fill_step = "Cleaned" /\ totpoints = 1 /\ stack = <<>>)
           => \A i \in BorderIndices(ibuf) :
                  ibuf.rect_float[i][1] # 1 /\ ibuf.rect_float[i][2] # 1

\* C24: the stages of a pass follow one another as render, red borders, flood
\* fill, inversion when the fill is inverted, cleared borders, outline; the
\* frame is red before and after the flood fill, and neither red nor green
\* when the first outline is taken.
C24_PassOrder == []FrameOfStage /\ [][fill_step' # fill_step => StageFollows]_vars

\* An inverted pass is about to take its first outline: the inversion made a
\* pixel inside the frame green.
C24_Witness ==
    /\ fill_step = "Cleaned"
    /\ totpoints = 1
    /\ is_inverted
    /\ inversions = 1
    /\ \E i \in DOMAIN ibuf.rect_float : ibuf.rect_float[i] = COL_GREEN
    /\ \E i \in DOMAIN rendered : rendered[i] = COL_RED

(* ------------------------------------------------------------------ *)
(* The loop of the outlines                                           *)
(* ------------------------------------------------------------------ *)

\* The step ends a round of the loop of gpencil_do_frame_fill.
RoundEnds == fill_step = "Traced" /\ fill_step' # fill_step

\* C25 as stated: the loop is not left at the end of a round whose outline
\* had points, whether the fill is inverted or not.
C25_LoopUntilEmpty == [][(RoundEnds /\ fill_step' = "Done") => stack = <<>>]_vars

\* C25 amended: the loop of an inverted fill goes on to another round when the
\* outline of the round had points and is left when it had none; the loop of
\* a fill that is not inverted is left at the end of its first round.
C25_LoopByMode ==
    [][RoundEnds =>
          IF is_inverted
          THEN IF stack = <<>> THEN fill_step' = "Done" ELSE fill_step' = "Cleaned"
          ELSE fill_step' = "Done" /\ totpoints' = 0]_vars

\* An inverted fill left the loop after a round without points that followed
\* a round with points.
C25_Witness ==
    /\ fill_step = "Done"
    /\ is_inverted
    /\ stack = <<>>
    /\ totpoints = 0
    /\ sbuffer_used > 0

\* A fill that is not inverted left the loop after a round with points.
PlainLeftWithPoints ==
    /\ fill_step = "Done"
    /\ ~is_inverted
    /\ stack # <<>>

(* ------------------------------------------------------------------ *)
(* The region of the flood fill                                       *)
(* ------------------------------------------------------------------ *)

\* The colour the render gave the pixel at a coordinate, and the one it has.
RenderedAt(c) == rendered[c[1] + (ibuf.x * c[2])]

PixelAt(c) == ibuf.rect_float[c[1] + (ibuf.x * c[2])]

\* The pixels inside the red frame that the render left neither red nor green.
FreePixels ==
    {c \in Interior(ibuf.x, ibuf.y) : RenderedAt(c)[1] # 1 /\ RenderedAt(c)[2] # 1}

\* The seed: the blue pixel of the smallest index inside the frame, if any.
SeedPixels ==
    LET blue == {c \in Interior(ibuf.x, ibuf.y) : RenderedAt(c)[3] = 1}
    IN  {c \in blue : \A d \in blue : c[1] + (ibuf.x * c[2]) <= d[1] + (ibuf.x * d[2])}

\* The free pixels joined to the seed through sides.
SeedComponent == IF SeedPixels = {} THEN {} ELSE Flood4(FreePixels, SeedPixels)

\* The pixels that are green.
FilledPixels == {c \in Coords(ibuf.x, ibuf.y) : PixelAt(c)[2] = 1}

\* C26: the flood fill inside the red frame comes to an end on every image;
\* with fill_leak 0 the pixels it fills are exactly the pixels, neither red
\* nor green, joined through sides to the seed, the first blue pixel; with a
\* larger fill_leak they are among those.
C26_FloodRegion ==
    /\ fill_step = "Bordered" =>
           gpencil_boundaryfill_area(ibuf, fill_leak).ibuf.x = ibuf.x
    /\ fill_step = "Filled" =>
           /\ fill_leak = 0 => FilledPixels = SeedComponent
           /\ FilledPixels \subseteq SeedComponent
           /\ \A c \in Coords(ibuf.x, ibuf.y) \ FilledPixels :
                  \/ PixelAt(c) = RenderedAt(c)
                  \/ c \notin Interior(ibuf.x, ibuf.y) /\ PixelAt(c) = COL_RED

\* A fill with fill_leak 0 stopped at the strokes: it filled pixels and left
\* free pixels that the strokes cut off from the seed.
C26_Witness ==
    /\ fill_step = "Filled"
    /\ fill_leak = 0
    /\ Cardinality(FilledPixels) >= 2
    /\ FreePixels \ SeedComponent # {}

\* A fill with a leak size left out pixels joined to the seed.
LeakLeftOut ==
    /\ fill_step = "Filled"
    /\ fill_leak > 0
    /\ FilledPixels # {}
    /\ SeedComponent \ FilledPixels # {}

(* ------------------------------------------------------------------ *)
(* The pixels of one inversion                                        *)
(* ------------------------------------------------------------------ *)

\* C30: one inversion remaps the pixel at every index 0 .. x*y - 1: a green
\* pixel is red, a red pixel is green, any other pixel is clear.
C30_InvertEveryPixel ==
    inversions = 1 =>
        \A i \in 0..((ibuf.x * ibuf.y) - 1) :
            get_pixel(ibuf, i) = InvertColor(rendered[i])

\* The pixels from index 1 on are remapped.
InvertFromOne ==
    inversions = 1 =>
        \A i \in 1..((ibuf.x * ibuf.y) - 1) :
            get_pixel(ibuf, i) = InvertColor(rendered[i])

\* The pixel at index 0 has the colour it had.
InvertFirstKept == inversions >= 1 => get_pixel(ibuf, 0) = rendered[0]

\* An inversion of an image whose first pixel is red, as the limit of
\* gpencil_set_borders leaves it: the pixel is not green.
InvertFirstRed ==
    /\ inversions = 1
    /\ rendered[0] = COL_RED
    /\ get_pixel(ibuf, 0) = COL_RED

(* ------------------------------------------------------------------ *)
(* The values of the boundary falloff                                 *)
(* ------------------------------------------------------------------ *)

\* The seeds of a boundary build: the vertices of the boundary curves of the
\* origins of its symmetry iterations.
BoundarySeeds ==
    UNION {SeqRange(SCULPT_boundary_data_init(mesh, o, "EMPTY").vertices) :
              o \in ResolvedOrigins}

\* Vertices at most h edges of the neighbour iterator away from the set S.
PlainBall(S, h) ==
    LET RECURSIVE Ball(_)
        Ball(n) ==
            IF n = 0 THEN S
            ELSE LET inner == Ball(n - 1)
                 IN  inner \cup UNION {{Neighbors(mesh, w)[k].index :
                                          k \in DOMAIN Neighbors(mesh, w)} : w \in inner}
    IN  Ball(h)

PlainHop(S, v) == SetMin({h \in 0..mesh.totvert : v \in PlainBall(S, h)})

\* C27: a boundary falloff built from a seed set that is not empty holds 0 at
\* every seed, at every vertex the seeds reach the smallest count of edges to
\* a seed of any symmetry origin, and FLT_MAX at every vertex they do not reach.
C27_BoundaryHopCount ==
    (falloff_factor_type = "BOUNDARY_TOPOLOGY" /\ BoundarySeeds # {}) =>
        \A v \in Verts(mesh) :
            IF v \in BoundarySeeds THEN falloff_factor[v] = F(0)
            ELSE IF v \in PlainBall(BoundarySeeds, mesh.totvert)
            THEN falloff_factor[v] = F(PlainHop(BoundarySeeds, v))
            ELSE falloff_factor[v] = F_FLT_MAX

\* A build from the boundaries of two origins: some vertex two edges away from
\* the seeds, nearer to the seeds of the mirrored origin than to those of the
\* given one.
C27_Witness ==
    /\ falloff_factor_type = "BOUNDARY_TOPOLOGY"
    /\ BoundarySeeds # {}
    /\ Cardinality(ResolvedOrigins) = 2
    /\ \E v \in Verts(mesh) : falloff_factor[v] = F(2)
    /\ \E v \in Verts(mesh) :
          LET own == SeqRange(SCULPT_boundary_data_init(mesh, initial_active_vertex,
                                                        "EMPTY").vertices)
          IN  /\ own # {}
              /\ v \in PlainBall(own, mesh.totvert)
              /\ PlainHop(BoundarySeeds, v) < PlainHop(own, v)

\* A build that left a vertex out of reach of the seeds at FLT_MAX.
BoundaryOutOfReach ==
    /\ falloff_factor_type = "BOUNDARY_TOPOLOGY"
    /\ BoundarySeeds # {}
    /\ \E v \in Verts(mesh) : falloff_factor[v] = F_FLT_MAX

(* ------------------------------------------------------------------ *)
(* The toggles of the modal handler                                   *)
(* ------------------------------------------------------------------ *)

\* The handler is called with the modal map event of one of the three toggles.
ToggleEvent ==
    /\ session = "Active"
    /\ nevents' = nevents + 1
    /\ last_event' \in {"INVERT", "PRESERVE_TOGGLE", "GRADIENT_TOGGLE"}

\* The cache after the event is the cache before it with the boolean of the
\* event negated (the active factor apart, which an update sets).
ToggleFlips ==
    [expand_cache' EXCEPT !.active_factor = expand_cache.active_factor] =
        CASE last_event' = "INVERT" -> [expand_cache EXCEPT !.invert = ~@]
          [] last_event' = "PRESERVE_TOGGLE" -> [expand_cache EXCEPT !.preserve = ~@]
          [] last_event' = "GRADIENT_TOGGLE" -> [expand_cache EXCEPT !.falloff_gradient = ~@]

\* The falloff field is the one of before the event.
ToggleKeepsField ==
    /\ falloff_factor' = falloff_factor
    /\ max_falloff_factor' = max_falloff_factor
    /\ falloff_factor_type' = falloff_factor_type

\* The channels after the event are what sculpt_expand_update_for_vertex makes
\* of them with the cache of after the event, for the vertex under the pointer.
ToggleReapplied ==
    LET upd == sculpt_expand_update_for_vertex(
                   mesh, expand_cache', falloff_factor, max_falloff_factor, mask, face_sets,
                   sculpt_expand_target_vertex_update_and_get(mesh, pointer))
    IN  /\ mask' = upd.mask
        /\ face_sets' = upd.face_sets

\* C28: an invert, preserve or gradient toggle negates exactly its boolean,
\* leaves the falloff field as it is, and is followed by the update, so that
\* the target channel is what the update gives with the new booleans.
C28_ToggleReapplies ==
    [][ToggleEvent => (ToggleFlips /\ ToggleKeepsField /\ ToggleReapplied)]_vars

\* A toggle negates exactly its boolean and leaves the falloff field.
ToggleFlipsOnly == [][ToggleEvent => (ToggleFlips /\ ToggleKeepsField)]_vars

\* A toggle leaves the mask and the face sets as they are.
ToggleLeavesChannels == [][ToggleEvent => (mask' = mask /\ face_sets' = face_sets)]_vars

\* After an invert toggle on the mask the mask is not what an update gives.
ToggleStale ==
    /\ session = "Active"
    /\ last_event = "INVERT"
    /\ expand_cache.target = SCULPT_EXPAND_TARGET_MASK
    /\ mask # sculpt_expand_update_for_vertex(
                  mesh, expand_cache, falloff_factor, max_falloff_factor, mask, face_sets,
                  sculpt_expand_target_vertex_update_and_get(mesh, pointer)).mask

(* ------------------------------------------------------------------ *)
(* The mask after an update                                           *)
(* ------------------------------------------------------------------ *)

\* A vertex is enabled when its value is within the active factor, or, with
\* the snap on, when its face set is one of the enabled ids; invert negates.
VertexEnabled(v) ==
    LET enabled == IF expand_cache.snap
                   THEN SCULPT_vertex_face_set_get(mesh, face_sets, v)
                            \in expand_cache.snap_enabled_face_sets.keys
                   ELSE FLessEq(falloff_factor[v], expand_cache.active_factor)
    IN  enabled # expand_cache.invert

\* The value of the claim before the clamp.
MaskFormula(v) ==
    LET m == IF VertexEnabled(v)
             THEN sculpt_expand_gradient_falloff_get(expand_cache, falloff_factor,
                                                     max_falloff_factor, v)
             ELSE F(0)
    IN  IF expand_cache.preserve
        THEN (IF FLess(expand_cache.initial_mask[v], m) THEN m ELSE expand_cache.initial_mask[v])
        ELSE m

\* An update of a session on the mask has just run.
AfterMaskUpdate == AfterUpdate /\ expand_cache.target = SCULPT_EXPAND_TARGET_MASK

\* The mask of every vertex is the formula, clamped.
MaskIsFormula ==
    AfterMaskUpdate =>
        \A v \in Verts(mesh) : mask[v] = clamp_f(MaskFormula(v), F(0), F(1))

\* Every mask value lies in [0, 1].
MaskInRange ==
    AfterMaskUpdate =>
        \A v \in Verts(mesh) : FLessEq(F(0), mask[v]) /\ FLessEq(mask[v], F(1))

\* With preserve no mask value is below the snapshot.
MaskAboveSnapshot ==
    (AfterMaskUpdate /\ expand_cache.preserve) =>
        \A v \in Verts(mesh) : FLessEq(expand_cache.initial_mask[v], mask[v])

\* Without gradient and preserve the mask is 1 where enabled and 0 elsewhere.
MaskBinary ==
    (AfterMaskUpdate /\ ~expand_cache.falloff_gradient /\ ~expand_cache.preserve) =>
        \A v \in Verts(mesh) : mask[v] = IF VertexEnabled(v) THEN F(1) ELSE F(0)

\* C29: after every update of a session on the mask, the mask of a vertex is
\* the clamp to [0, 1] of the gradient value when enabled and 0 when not,
\* raised to the snapshot value under preserve; so it lies in [0, 1], is not
\* below the snapshot under preserve, and is 1 or 0 without gradient and preserve.
C29_MaskFormula == MaskIsFormula /\ MaskInRange /\ MaskAboveSnapshot /\ MaskBinary

\* An update left a mask value that is not a number.
MaskNotANumber ==
    /\ AfterMaskUpdate
    /\ expand_cache.falloff_gradient
    /\ \E v \in Verts(mesh) : IsNaN(mask[v])

(* ------------------------------------------------------------------ *)
(* The dilate of the first outline                                    *)
(* ------------------------------------------------------------------ *)

\* The round of the loop that dilates the shape before it takes the outline.
DilateStep ==
    /\ fill_step = "Cleaned"
    /\ totpoints = 1
    /\ fill_step' \in {"Traced", "Hung"}

\* The pixel at a coordinate after the step.
PixelAfter(c) == ibuf'.rect_float[c[1] + (ibuf.x * c[2])]

\* C31: the dilate grows the green region by at most one pixel and only into
\* red pixels: a pixel that is green after it and was not before was red and
\* touches, by a side or a corner, a pixel that was green; every green pixel
\* is still green and every pixel neither red nor green keeps its colour.
C31_DilateOneRing ==
    [][DilateStep =>
          \A c \in Coords(ibuf.x, ibuf.y) :
              /\ (PixelAfter(c)[2] = 1 /\ PixelAt(c)[2] # 1) =>
                     /\ PixelAt(c)[1] = 1
                     /\ \E d \in Coords(ibuf.x, ibuf.y) : Adjacent8(c, d) /\ PixelAt(d)[2] = 1
              /\ PixelAt(c)[2] = 1 => PixelAfter(c)[2] = 1
              /\ (PixelAt(c)[1] # 1 /\ PixelAt(c)[2] # 1) => PixelAfter(c) = PixelAt(c)]_vars

\* A plain fill whose first outline was taken: a stroke pixel is green, and
\* another stroke pixel, away from the filled region, is still red.
C31_Witness ==
    /\ fill_step = "Traced"
    /\ ~is_inverted
    /\ \E c \in Interior(ibuf.x, ibuf.y) : RenderedAt(c) = COL_RED /\ PixelAt(c)[2] = 1
    /\ \E c \in Interior(ibuf.x, ibuf.y) : RenderedAt(c) = COL_RED /\ PixelAt(c) = COL_RED

(* ------------------------------------------------------------------ *)
(* The strokes of a pass                                              *)
(* ------------------------------------------------------------------ *)

\* The point counts of the outlines the rounds of a logged pass took: the
\* first one of a plain fill, all of them of an inverted fill.
TracedCounts(pass) ==
    IF pass.inverted THEN pass.outlines ELSE SubSeq(pass.outlines, 1, 1)

\* The point counts of the strokes of a logged pass.
StrokeCounts(pass) == [k \in DOMAIN pass.strokes |-> pass.strokes[k].totpoints]

\* C33: a round adds a stroke only when its own outline has a point: the
\* strokes of a pass that returned are as many as its outlines with points,
\* and each has the point count of its outline.
C33_StrokePerTrace ==
    \A p \in DOMAIN fill_log :
        (fill_log[p].processed /\ fill_log[p].returned) =>
            StrokeCounts(fill_log[p]) = SelectSeq(TracedCounts(fill_log[p]), LAMBDA n : n > 0)

\* The same for the rounds whose outline has points: each adds one stroke of
\* its point count, made from the points of the buffer.
StrokeOfEachTrace ==
    \A p \in DOMAIN fill_log :
        (fill_log[p].processed /\ fill_log[p].returned) =>
            LET made == SelectSeq(fill_log[p].strokes, LAMBDA s : s.from_buffer)
            IN  [k \in DOMAIN made |-> made[k].totpoints]
                    = SelectSeq(TracedCounts(fill_log[p]), LAMBDA n : n > 0)

\* An inverted pass that returned with a stroke of its last round, whose
\* outline had no point: the stroke has the point count of the round before
\* and no point of the buffer.
StrokeOfEmptyTrace ==
    \E p \in DOMAIN fill_log :
        /\ fill_log[p].processed /\ fill_log[p].returned
        /\ fill_log[p].inverted
        /\ fill_log[p].outlines = <<3, 4, 0>>
        /\ StrokeCounts(fill_log[p]) = <<3, 4, 4>>
        /\ ~fill_log[p].strokes[3].from_buffer

(* ------------------------------------------------------------------ *)
(* The erase of the processed area                                    *)
(* ------------------------------------------------------------------ *)

\* The round of an inverted pass that found an outline ends with the erase.
EraseStep ==
    /\ fill_step = "Traced"
    /\ is_inverted
    /\ totpoints > 0
    /\ fill_step' = "Cleaned"

\* The pixels of the outline.
OutlinePixels == {<<stack[i][1], stack[i][2]>> : i \in DOMAIN stack}

\* The pixel c lies in the span of the outline pixel b of its row: from b on,
\* before the next pixel that is red and not of the outline.
InSpanFrom(b, c) ==
    /\ b[2] = c[2]
    /\ b[1] <= c[1]
    /\ \A k \in (b[1] + 1)..c[1] :
           <<k, c[2]>> \in OutlinePixels \/ PixelAt(<<k, c[2]>>)[1] # 1

\* The span of b is closed: a red pixel that is not of the outline follows b
\* in its row.
SpanClosed(b) ==
    \E k \in (b[1] + 1)..(ibuf.x - 1) :
        <<k, b[2]>> \notin OutlinePixels /\ PixelAt(<<k, b[2]>>)[1] = 1

\* Every pixel of the outline is red after the erase and no pixel is blue.
EraseOutlineRed ==
    [][EraseStep =>
          /\ \A c \in OutlinePixels : PixelAfter(c) = COL_RED
          /\ \A c \in Coords(ibuf.x, ibuf.y) : PixelAfter(c)[3] # 1]_vars

\* The pixels of the spans are red after the erase and the others unchanged,
\* a span without a closing red pixel running on to the end of the row.
EraseSpansToRowEnd ==
    [][EraseStep =>
          \A c \in Coords(ibuf.x, ibuf.y) :
              IF \E b \in OutlinePixels : InSpanFrom(b, c)
              THEN PixelAfter(c) = COL_RED
              ELSE PixelAfter(c) = PixelAt(c)]_vars

\* C32: the erase sets red, row by row, exactly the pixels from an outline
\* pixel up to the next red pixel of the row; afterwards every pixel of the
\* outline is red, no pixel is blue, and the pixels outside such spans are
\* as they were.
C32_EraseSpans ==
    [][EraseStep =>
          /\ \A c \in OutlinePixels : PixelAfter(c) = COL_RED
          /\ \A c \in Coords(ibuf.x, ibuf.y) : PixelAfter(c)[3] # 1
          /\ \A c \in Coords(ibuf.x, ibuf.y) :
                 IF \E b \in OutlinePixels : InSpanFrom(b, c) /\ SpanClosed(b)
                 THEN PixelAfter(c) = COL_RED
                 ELSE c \in OutlinePixels \/ PixelAfter(c) = PixelAt(c)]_vars

\* An inverted pass after its first erase: a pixel of the cleared frame is red.
EraseReachedFrame ==
    /\ fill_step = "Cleaned"
    /\ is_inverted
    /\ sbuffer_used > 0
    /\ \E c \in Coords(ibuf.x, ibuf.y) \ Interior(ibuf.x, ibuf.y) : PixelAt(c) = COL_RED

\* The erase leaves green every green pixel that is not of the outline.
EraseKeepsOtherGreen ==
    [][EraseStep =>
          \A c \in Coords(ibuf.x, ibuf.y) \ OutlinePixels :
              PixelAt(c)[2] = 1 => PixelAfter(c)[2] = 1]_vars

(* ------------------------------------------------------------------ *)
(* The blocks of the initial snapshot                                 *)
(* ------------------------------------------------------------------ *)

\* The number of entries sculpt_expand_initial_state_store allocates for
\* initial_face_sets, and the indices it writes.
InitialFaceSetsAllocated(m) == m.totvert

InitialFaceSetsWritten(m) == 0..(m.totface - 1)

\* A session was started on the mesh: the store of the invoke has run.
SnapshotStored == session # "None"

\* C34: the store of the initial snapshot writes no entry outside its blocks:
\* the block of the face set ids has an entry for every face, also on a mesh
\* with more faces than vertices.
C34_SnapshotInBlock ==
    SnapshotStored =>
        \A i \in InitialFaceSetsWritten(mesh) : i < InitialFaceSetsAllocated(mesh)

\* The same on the meshes with no more faces than vertices.
SnapshotInBlockFewFaces ==
    (SnapshotStored /\ mesh.totface <= mesh.totvert) =>
        \A i \in InitialFaceSetsWritten(mesh) : i < InitialFaceSetsAllocated(mesh)

\* A session on a mesh with more faces than vertices whose snapshot differs
\* from the ids of the faces at the entry past the block.
SnapshotPastBlock ==
    /\ session = "Active"
    /\ last_event = "NONE"
    /\ mesh.totface > mesh.totvert
    /\ ~expand_cache.modify_active
    /\ expand_cache.initial_face_sets[mesh.totvert] # start_face_sets[mesh.totvert]

(* ------------------------------------------------------------------ *)
(* The undo step of a session                                         *)
(* ------------------------------------------------------------------ *)

\* C35: a session that has ended, confirmed or cancelled, has ended the undo
\* step its invoke began, once: no undo step is open.
C35_UndoStepClosed ==
    session \in {"Confirmed", "Cancelled"} => undo_open = 0

\* A confirmed session has ended its undo step, and no session has ended more
\* steps than it began or more than one open.
UndoClosedOnConfirm ==
    /\ session = "Confirmed" => undo_open = 0
    /\ undo_open \in {0, 1}

\* A cancelled session whose undo step is open.
UndoOpenAfterCancel ==
    /\ session = "Cancelled"
    /\ last_event = "OP_CANCEL"
    /\ expand_cache.freed
    /\ undo_open = 1

(* ------------------------------------------------------------------ *)
(* The green pixels over the rounds of an inverted pass               *)
(* ------------------------------------------------------------------ *)

\* The number of green pixels of an image.
GreenCount(im) == Cardinality({i \in DOMAIN im.rect_float : im.rect_float[i][2] = 1})

\* The outline of a round of an inverted pass was taken and has points.
TraceFoundPoints ==
    /\ fill_step = "Cleaned"
    /\ is_inverted
    /\ fill_step' = "Traced"
    /\ totpoints' > 0

\* The image the erase of the round leaves.
ImageAfterRound == gpencil_erase_processed_area(ibuf', stack', sbuffer_used').ibuf

EraseDecreasesGreen ==
    [][TraceFoundPoints => GreenCount(ImageAfterRound) < GreenCount(ibuf')]_vars

\* A round leaves no more green pixels than it found.
RoundNeverGrowsGreen ==
    [][TraceFoundPoints => GreenCount(ImageAfterRound) <= GreenCount(ibuf)]_vars

\* A round leaves fewer green pixels than it found.
RoundDecreasesGreen ==
    [][TraceFoundPoints => GreenCount(ImageAfterRound) < GreenCount(ibuf)]_vars

\* A round leaves green only pixels that were green when it began.
RoundTurnsNoneGreen ==
    [][TraceFoundPoints =>
          \A i \in DOMAIN ibuf.rect_float :
              ImageAfterRound.rect_float[i][2] = 1 => ibuf.rect_float[i][2] = 1]_vars

(* ------------------------------------------------------------------ *)
(* The mask of an update and the masks of the updates before it       *)
(* ------------------------------------------------------------------ *)

\* Masks an earlier update can have left: a value of [0, 1] or a value that is
\* not a number on every vertex, and the snapshot of the session.
PriorMasks ==
    {[v \in Verts(mesh) |-> x] : x \in {F(0), Frac(1, 2), F(1), F_NAN}}
        \cup {expand_cache.initial_mask}

\* The mask the update of the last pointer move writes over a given mask.
MaskWrittenOver(prior) ==
    sculpt_expand_update_for_vertex(
        mesh, expand_cache, falloff_factor, max_falloff_factor, prior, face_sets,
        sculpt_expand_target_vertex_update_and_get(mesh, pointer)).mask

\* The update of a pointer move on the mask was the last handler to return.
AfterMaskMove ==
    /\ session = "Active"
    /\ last_event = "MOUSEMOVE"
    /\ expand_cache.target = SCULPT_EXPAND_TARGET_MASK

\* C37: with target Mask, the mask an update of a pointer move leaves is the
\* mask the same update writes over any other mask: it is a function of the
\* falloff values, the active factor, the flags and the snapshot, and of no
\* mask written before, with preserve too.
C37_MaskOfUpdateOnly ==
    AfterMaskMove => \A prior \in PriorMasks : MaskWrittenOver(prior) = mask

\* A move under preserve, after a toggle, that left a mask other than the
\* snapshot and other than the mask of the invoke.
C37_Witness ==
    /\ AfterMaskMove
    /\ expand_cache.preserve
    /\ nevents = MaxEvents
    /\ mask # expand_cache.initial_mask
    /\ \E v \in Verts(mesh) : mask[v] # F(0) /\ mask[v] # expand_cache.initial_mask[v]

(* ------------------------------------------------------------------ *)
(* The pixels the flood fill changes                                  *)
(* ------------------------------------------------------------------ *)

\* The step of gpencil_boundaryfill_area in a pass.
FloodStep == fill_step = "Bordered" /\ fill_step' = "Filled"

\* The pixels of the frame gpencil_set_borders painted red.
FramePixels == BorderIndices(ibuf)

\* C38: the flood fill changes only pixels that were neither red nor green,
\* and turns them green: every red pixel keeps its colour, and no pixel of the
\* red frame is filled.
C38_FloodKeepsRed ==
    [][FloodStep =>
          /\ \A i \in DOMAIN ibuf.rect_float :
                 ibuf'.rect_float[i] # ibuf.rect_float[i] =>
                     /\ ibuf.rect_float[i][1] # 1
                     /\ ibuf.rect_float[i][2] # 1
                     /\ ibuf'.rect_float[i] = COL_GREEN
          /\ \A i \in DOMAIN ibuf.rect_float :
                 ibuf.rect_float[i][1] = 1 => ibuf'.rect_float[i] = ibuf.rect_float[i]
          /\ \A i \in FramePixels :
                 ibuf.rect_float[i] = COL_RED /\ ibuf'.rect_float[i] = COL_RED]_vars

\* A fill that reached the frame and a stroke: a green pixel lies next to a
\* pixel of the frame and another next to a red pixel inside it.
C38_Witness ==
    /\ fill_step = "Filled"
    /\ \E i \in FramePixels :
           /\ i + 1 \in DOMAIN ibuf.rect_float \ FramePixels
           /\ ibuf.rect_float[i + 1][2] = 1
    /\ \E i \in DOMAIN ibuf.rect_float \ FramePixels :
           /\ ibuf.rect_float[i] = COL_RED
           /\ ibuf.rect_float[i + 1][2] = 1

(* ------------------------------------------------------------------ *)
(* Vertices the topology fill does not reach                          *)
(* ------------------------------------------------------------------ *)

\* The vertices no counted or seam edge joins to an origin of the build.
TopologyUnreached == Verts(mesh) \ HopReachable(ResolvedOrigins)

\* sculpt_expand_state_get of a session without snap and invert whose active
\* factor is the threshold t.
EnabledAtThreshold(v, t) ==
    sculpt_expand_state_get(mesh, [CallocCache EXCEPT !.active_factor = F(t)],
                            falloff_factor, <<>>, v)

\* C39: with the Topological metric a vertex that no origin reaches holds 0,
\* not FLT_MAX: it is enabled at every threshold from 0 on, and the scan for
\* the largest value does not skip it.
C39_UnreachedKeepsZero ==
    falloff_factor_type = "TOPOLOGY" =>
        /\ \A v \in TopologyUnreached :
               /\ falloff_factor[v] = F(0)
               /\ ~FEq(falloff_factor[v], F_FLT_MAX)
               /\ \A t \in 0..mesh.totvert : EnabledAtThreshold(v, t)
        /\ \A v \in Verts(mesh) : FLessEq(falloff_factor[v], max_falloff_factor)
        /\ \E v \in Verts(mesh) : falloff_factor[v] = max_falloff_factor

\* A topology field with an unreached vertex and a reached one of value 1 or
\* more: the unreached vertex is enabled before vertices the fill visited.
C39_Witness ==
    /\ falloff_factor_type = "TOPOLOGY"
    /\ TopologyUnreached # {}
    /\ \E v \in HopReachable(ResolvedOrigins) : FLessEq(F(1), falloff_factor[v])

(* ------------------------------------------------------------------ *)
(* SpecPoints: the count of the point buffer over the outlines of a   *)
(* session                                                           *)
(* ------------------------------------------------------------------ *)

\* The numbers of points of the outlines: none, a few, and the numbers around
\* the ends of the range of a signed integer of 16 bits. The image is the
\* region scaled by fill_factor (up to 8), so an outline of that many pixels
\* fits in it.
PointCounts ==
    (0..24) \cup {100, 1000, 16384} \cup (32764..32771) \cup {40000, 49152}
        \cup (65532..65540) \cup {70000, 98304}

\* A session before the first outline: sbuffer_used is set to 0 when the
\* session is made, and totpoints to 1 when a frame is filled.
PointsInit ==
    /\ SculptIdle
    /\ wall = <<>>
    /\ FillStart([x |-> 0, y |-> 0, rect_float |-> <<>>], 0, TRUE, "Stack", 1)

\* A round of the loop of gpencil_do_frame_fill: the outline of the round has
\* count points on the stack and gpencil_points_from_stack moves them to the
\* point buffer. totpoints is the value returned, the number of points popped.
PointsFromStack ==
    /\ fill_step \in {"Stack", "Points"}
    /\ totpoints > 0
    /\ \E count \in PointCounts :
          LET res == gpencil_points_from_stack(sbuffer_used, count)
          IN  /\ sbuffer_used' = res.sbuffer_used
              /\ totpoints' = res.popped
    /\ fill_step' = "Points"
    /\ UNCHANGED <<expandVars, gpVars, ibuf, fill_leak, is_inverted, stack, rendered,
                   oob_access, inversions, wall>>

\* The loop ended on an empty outline; the fill of the next frame begins, in
\* the same session.
PointsNextFrame ==
    /\ fill_step = "Points"
    /\ totpoints = 0
    /\ totpoints' = 1
    /\ fill_step' = "Stack"
    /\ UNCHANGED <<expandVars, gpVars, ibuf, fill_leak, is_inverted, stack, sbuffer_used,
                   rendered, oob_access, inversions, wall>>

PointsNext ==
    \/ PointsFromStack
    \/ PointsNextFrame

SpecPoints == PointsInit /\ [][PointsNext]_vars

\* C40: after gpencil_points_from_stack the stored count sbuffer_used is the
\* number of points popped into the point buffer; it is not negative and not a
\* count that wrapped modulo 2^16.
C40_CountIsPoints ==
    fill_step = "Points" => sbuffer_used = totpoints /\ sbuffer_used >= 0

\* For an outline of 1 to 32767 points the stored count is the number of
\* points popped.
CountOfShortOutline ==
    (fill_step = "Points" /\ totpoints \in 1..32767) => sbuffer_used = totpoints

\* An outline of more than 32767 points left a count that is negative or
\* smaller than the number of points.
CountWrapped ==
    /\ fill_step = "Points"
    /\ totpoints > 32767
    /\ sbuffer_used < totpoints

\* An empty outline left the count of the outline before it.
CountStale ==
    /\ fill_step = "Points"
    /\ totpoints = 0
    /\ sbuffer_used # 0

====
